---------------------------- MODULE Spec2Model ----------------------------
(***************************************************************************)
(* Model of the infrastructure DCF valuation engine                        *)
(* (src/infrastructure_dcf.py): the CompanyFinancials record, the          *)
(* InfrastructureDCF engine with its cached classification/detection       *)
(* state, and the ValuationResult it returns.                              *)
(*                                                                         *)
(* Number representation.  Monetary amounts are integers (millions).       *)
(* Rates (risk free rate, premium, tax, growth, WACC) are integers in      *)
(* permille (0.025 = 25).  Asset betas are in hundredths (0.60 = 60).      *)
(* Floating point products and quotients are fixed point with floor.       *)
(* Every comparison of a ratio against a threshold (the fingerprints,      *)
(* the coefficients of variation) is exact, by cross multiplication.       *)
(* Strings that the code inspects (sector labels) are sequences of         *)
(* one-character strings.                                                  *)
(***************************************************************************)
EXTENDS Integers, Sequences, FiniteSets, TLC

(***************************************************************************)
(* Bounds of the model                                                     *)
(***************************************************************************)
\* operations (calls and caller mutations) in one behaviour of Spec
MaxOps == 3
\* largest projection horizon a caller passes
MaxYears == 2
\* longest series a constructor call is tried with in SpecCtor
MaxLen == 4
\* calls of calculate_valuation one thread makes in SpecSteps
MaxCalls == 2
\* the longest horizon passed to calculate_valuation in SpecHorizon
MaxHorizon == 4

(***************************************************************************)
(* Generic helpers                                                         *)
(***************************************************************************)
None == {}

Some(v) == {v}

IsNone(o) == o = {}

TheVal(o) == CHOOSE v \in o : TRUE

Last(s) == s[Len(s)]

\* Python s[-k:]
LastN(s, k) == IF Len(s) <= k THEN s ELSE SubSeq(s, Len(s) - k + 1, Len(s))

RECURSIVE SumSeq(_)
SumSeq(s) == IF s = <<>> THEN 0 ELSE s[1] + SumSeq(Tail(s))

SumSq(s) == SumSeq([i \in 1..Len(s) |-> s[i] * s[i]])

Abs(x) == IF x < 0 THEN -x ELSE x

RECURSIVE GCD(_, _)
GCD(a, b) == IF b = 0 THEN Abs(a) ELSE GCD(b, a % b)

LCM(a, b) == (a \div GCD(a, b)) * b

RECURSIVE LCMSeq(_)
LCMSeq(s) == IF s = <<>> THEN 1 ELSE LCM(s[1], LCMSeq(Tail(s)))

RECURSIVE GCDSeq(_)
GCDSeq(s) == IF s = <<>> THEN 0 ELSE GCD(s[1], GCDSeq(Tail(s)))

Min(S) == CHOOSE x \in S : \A y \in S : x <= y

\* Number of positions of s whose element is negative
CountNegative(s) == Cardinality({i \in 1..Len(s) : s[i] < 0})

(***************************************************************************)
(* str.lower() and the `in` substring test                                 *)
(***************************************************************************)
ToLower(c) ==
    CASE c = "A" -> "a" [] c = "B" -> "b" [] c = "C" -> "c" [] c = "D" -> "d"
      [] c = "E" -> "e" [] c = "F" -> "f" [] c = "G" -> "g" [] c = "H" -> "h"
      [] c = "I" -> "i" [] c = "J" -> "j" [] c = "K" -> "k" [] c = "L" -> "l"
      [] c = "M" -> "m" [] c = "N" -> "n" [] c = "O" -> "o" [] c = "P" -> "p"
      [] c = "Q" -> "q" [] c = "R" -> "r" [] c = "S" -> "s" [] c = "T" -> "t"
      [] c = "U" -> "u" [] c = "V" -> "v" [] c = "W" -> "w" [] c = "X" -> "x"
      [] c = "Y" -> "y" [] c = "Z" -> "z" [] OTHER -> c

Lower(s) == [i \in 1..Len(s) |-> ToLower(s[i])]

\* key in s
Contains(s, key) ==
    \E i \in 0..(Len(s) - Len(key)) : SubSeq(s, i + 1, i + Len(key)) = key

(***************************************************************************)
(* InfrastructureSector: members and their values                          *)
(***************************************************************************)
InfrastructureSector ==
    {"TOWERS", "TELECOM_INFRA", "REITS", "UTILITIES", "PIPELINES",
     "TOLL_ROADS", "AIRPORTS", "DATA_CENTERS", "OTHER"}

\* the engine's _sector_enum before any classification
NoSector == "None"

SectorValue(s) ==
    CASE s = "TOWERS" -> <<"t","o","w","e","r","s">>
      [] s = "TELECOM_INFRA" -> <<"t","e","l","e","c","o","m","_","i","n","f","r","a","s","t","r","u","c","t","u","r","e">>
      [] s = "REITS" -> <<"r","e","i","t","s">>
      [] s = "UTILITIES" -> <<"u","t","i","l","i","t","i","e","s">>
      [] s = "PIPELINES" -> <<"p","i","p","e","l","i","n","e","s">>
      [] s = "TOLL_ROADS" -> <<"t","o","l","l","_","r","o","a","d","s">>
      [] s = "AIRPORTS" -> <<"a","i","r","p","o","r","t","s">>
      [] s = "DATA_CENTERS" -> <<"d","a","t","a","_","c","e","n","t","e","r","s">>
      [] s = "OTHER" -> <<"o","t","h","e","r">>

\* sector_mapping of _classify_sector, in the dictionary's insertion order
SectorMapping ==
    << <<(<<"t","o","w","e","r","s">>), "TOWERS">>,
       <<(<<"t","o","w","e","r">>), "TOWERS">>,
       <<(<<"r","e","i","t">>), "REITS">>,
       <<(<<"r","e","i","t","s">>), "REITS">>,
       <<(<<"u","t","i","l","i","t","i","e","s">>), "UTILITIES">>,
       <<(<<"u","t","i","l","i","t","y">>), "UTILITIES">>,
       <<(<<"p","i","p","e","l","i","n","e">>), "PIPELINES">>,
       <<(<<"p","i","p","e","l","i","n","e","s">>), "PIPELINES">>,
       <<(<<"t","o","l","l">>), "TOLL_ROADS">>,
       <<(<<"a","i","r","p","o","r","t">>), "AIRPORTS">>,
       <<(<<"a","i","r","p","o","r","t","s">>), "AIRPORTS">>,
       <<(<<"d","a","t","a"," ","c","e","n","t","e","r">>), "DATA_CENTERS">>,
       <<(<<"d","a","t","a","c","e","n","t","e","r">>), "DATA_CENTERS">>,
       <<(<<"t","e","l","e","c","o","m">>), "TELECOM_INFRA">>,
       <<(<<"t","e","l","e","c","o","m","m","u","n","i","c","a","t","i","o","n","s">>), "TELECOM_INFRA">> >>

\* MAINTENANCE_CAPEX_BENCHMARKS, in percent of revenues
MaintenanceCapexBenchmark(s) ==
    CASE s = "TOWERS" -> 6 [] s = "TELECOM_INFRA" -> 7 [] s = "REITS" -> 12
      [] s = "UTILITIES" -> 45 [] s = "PIPELINES" -> 25 [] s = "TOLL_ROADS" -> 15
      [] s = "AIRPORTS" -> 20 [] s = "DATA_CENTERS" -> 10

\* ASSET_BETA_BENCHMARKS, in hundredths
AssetBetaBenchmark(s) ==
    CASE s = "TOWERS" -> 60 [] s = "TELECOM_INFRA" -> 65 [] s = "REITS" -> 55
      [] s = "UTILITIES" -> 40 [] s = "PIPELINES" -> 50 [] s = "TOLL_ROADS" -> 70
      [] s = "AIRPORTS" -> 75 [] s = "DATA_CENTERS" -> 65

\* the keys of both benchmark tables
BenchmarkSectors == InfrastructureSector \ {"OTHER"}


(***************************************************************************)
(* CompanyFinancials                                                       *)
(***************************************************************************)
\* __post_init__: the derived field, computed once from the constructor's
\* arguments (a carries net_debt = 0 as the not yet initialised field)
PostInit(a) == [a EXCEPT !.net_debt = a.total_debt - a.cash]

\* ValidateData without the minimum of 3 periods
ValidateDataNoMinimum(a) ==
    LET lengths == {Len(a.revenues), Len(a.ebitda), Len(a.depreciation),
                    Len(a.capex), Len(a.interest_expense)}
    IN  IF Cardinality(lengths) > 1 THEN "ValueError_length_mismatch" ELSE "ok"

\* _validate_data: "ok", or the ValueError it raises
ValidateData(a) ==
    LET lengths == {Len(a.revenues), Len(a.ebitda), Len(a.depreciation),
                    Len(a.capex), Len(a.interest_expense)}
    IN  IF Cardinality(lengths) > 1 THEN "ValueError_length_mismatch"
        ELSE IF Len(a.revenues) < 3 THEN "ValueError_need_3_years"
        ELSE "ok"

(***************************************************************************)
(* Ratios.  A ratio is a record [n, d] with d > 0, standing for n / d.     *)
(***************************************************************************)
Rat(n, d) == [n |-> n, d |-> d]

\* r > a / b   and   r < a / b   (b > 0)
RatGT(r, a, b) == r.n * b > a * r.d

RatLT(r, a, b) == r.n * b < a * r.d

\* _calculate_revenue_volatility: np.std of the year-over-year growth rates
\* np.diff(revenues) / revenues[:-1].  A growth rate is G[i] / L with L the
\* (reduced) common denominator, so std^2 = num / den^2 with
\* num = m * sum(G^2) - sum(G)^2 and den = m * L.  A zero in revenues[:-1]
\* makes numpy divide by zero (inf or nan, no exception) and np.std is nan.
RevenueVolatility(revenues) ==
    LET n == Len(revenues)
        m == n - 1
        prev == SubSeq(revenues, 1, m)
    IN  IF n < 2 THEN [nan |-> FALSE, num |-> 0, den |-> 1]
        ELSE IF \E i \in 1..m : prev[i] = 0 THEN [nan |-> TRUE, num |-> 0, den |-> 1]
        ELSE LET L0 == LCMSeq(prev)
                 G0 == [i \in 1..m |-> (revenues[i + 1] - revenues[i]) * (L0 \div prev[i])]
                 g  == GCD(GCDSeq(G0), L0)
                 G  == [i \in 1..m |-> G0[i] \div g]
                 L  == L0 \div g
             IN  [nan |-> FALSE,
                  num |-> m * SumSq(G) - SumSeq(G) * SumSeq(G),
                  den |-> m * Abs(L)]

\* volatility < a / b (a comparison with nan is False)
VolLT(v, a, b) == ~v.nan /\ v.num * b * b < a * a * v.den * v.den

\* _analyze_business_model
AnalyzeBusinessModel(d) ==
    LET latest_ebitda == Last(d.ebitda)
        latest_revenue == Last(d.revenues)
        sum_capex == SumSeq(LastN(d.capex, 3))
        sum_revenue == SumSeq(LastN(d.revenues, 3))
    IN  [ebitda_margin |->
            IF latest_revenue > 0 THEN Rat(latest_ebitda, latest_revenue) ELSE Rat(0, 1),
         asset_intensity |->
            IF latest_revenue > 0 THEN Rat(d.total_assets, latest_revenue) ELSE Rat(0, 1),
         revenue_volatility |-> RevenueVolatility(d.revenues),
         leverage |->
            IF latest_ebitda > 0 THEN Rat(d.total_debt, latest_ebitda) ELSE Rat(0, 1),
         capex_intensity |->
            IF sum_revenue > 0 THEN Rat(sum_capex, sum_revenue) ELSE Rat(0, 1)]

\* the tower fingerprint test of _classify_sector
TowerFingerprint(c) ==
    /\ RatGT(c.ebitda_margin, 1, 2)
    /\ RatGT(c.asset_intensity, 3, 1)
    /\ RatLT(c.asset_intensity, 15, 1)
    /\ VolLT(c.revenue_volatility, 3, 20)
    /\ RatGT(c.leverage, 4, 1)

\* the REIT fingerprint test of _classify_sector
ReitFingerprint(c) ==
    /\ RatGT(c.ebitda_margin, 3, 5)
    /\ RatGT(c.asset_intensity, 8, 1)

\* LabelSector with the last matching key winning
LabelSectorLastMatch(label) ==
    LET sector_lower == Lower(label)
        hits == {i \in 1..Len(SectorMapping) : Contains(sector_lower, SectorMapping[i][1])}
    IN  IF hits = {} THEN "OTHER" ELSE SectorMapping[-Min({-i : i \in hits})][2]

\* the label loop of _classify_sector: the first key of sector_mapping, in
\* dictionary order, that occurs in the lower-cased label; "OTHER" if none
LabelSector(label) ==
    LET sector_lower == Lower(label)
        hits == {i \in 1..Len(SectorMapping) : Contains(sector_lower, SectorMapping[i][1])}
    IN  IF hits = {} THEN "OTHER" ELSE SectorMapping[Min(hits)][2]

\* ClassifiedSector with the REIT fingerprint tested before the tower one
ClassifiedSectorReitFirst(d) ==
    LET characteristics == AnalyzeBusinessModel(d)
    IN  IF ReitFingerprint(characteristics) THEN "REITS"
        ELSE IF TowerFingerprint(characteristics) THEN "TOWERS"
        ELSE LabelSector(d.sector)

\* _classify_sector: the member it stores in _sector_enum
ClassifiedSector(d) ==
    LET characteristics == AnalyzeBusinessModel(d)
    IN  IF TowerFingerprint(characteristics) THEN "TOWERS"
        ELSE IF ReitFingerprint(characteristics) THEN "REITS"
        ELSE LabelSector(d.sector)

(***************************************************************************)
(* Historical FCF and the expansion-phase detector                         *)
(***************************************************************************)
\* product of an amount and a permille rate
MulRate(x, r) == (x * r) \div 1000

\* _calculate_historical_fcf
CalculateHistoricalFcf(d) ==
    IF ~IsNone(d.operating_cash_flow) /\ Len(TheVal(d.operating_cash_flow)) > 0
    THEN LET ocf == TheVal(d.operating_cash_flow)
             k == IF Len(ocf) < Len(d.capex) THEN Len(ocf) ELSE Len(d.capex)
         IN  [i \in 1..k |-> ocf[i] - d.capex[i]]
    ELSE [i \in 1..Len(d.ebitda) |->
            LET ebit == d.ebitda[i] - d.depreciation[i]
                tax == IF ebit > 0 THEN MulRate(ebit, d.effective_tax_rate) ELSE 0
            IN  (d.ebitda[i] - tax) - d.capex[i]]

\* a capex / EBITDA quotient of numpy exceeds 1.0 (x / 0 is inf, -inf or nan)
CapexRatioAboveOne(capex, ebitda) ==
    IF ebitda > 0 THEN capex > ebitda
    ELSE IF ebitda = 0 THEN capex > 0
    ELSE capex < ebitda

\* coefficient of variation std / mean (0 if mean <= 0) of s exceeds a / b
CvAbove(s, a, b) ==
    LET n == Len(s)
        sum == SumSeq(s)
    IN  /\ sum > 0
        /\ (n * SumSq(s) - sum * sum) * b * b > a * a * sum * sum

\* _should_use_forward_fcf after its classification prelude: the flags in
\* the order the rules append them, and the decision
ShouldUseForwardFcf(d, sector_enum, historical_fcf) ==
    LET window == IF Len(historical_fcf) >= 5 THEN 5 ELSE 3
        negative_years == CountNegative(LastN(historical_fcf, window))
        rule1 == IF Len(historical_fcf) >= 5 THEN negative_years >= 3
                 ELSE IF Len(historical_fcf) >= 3 THEN negative_years >= 2
                 ELSE FALSE
        n == Len(d.capex)
        cwin == IF n >= 5 THEN 5 ELSE 3
        high_capex_years ==
            Cardinality({i \in (n - cwin + 1)..n :
                            i >= 1 /\ CapexRatioAboveOne(d.capex[i], d.ebitda[i])})
        rule2 == IF n >= 5 THEN high_capex_years >= 3
                 ELSE IF n >= 3 THEN high_capex_years >= 2
                 ELSE FALSE
        rule3 == sector_enum \in BenchmarkSectors
        rule4 == Last(d.ebitda) > 0 /\ Last(historical_fcf) < 0
        rule5 == ~IsNone(d.avg_contract_duration)
                 /\ TheVal(d.avg_contract_duration) # 0
                 /\ TheVal(d.avg_contract_duration) > 5
        rule6 == Len(d.capex) >= 5 /\ CvAbove(LastN(d.capex, 5), 1, 2)
        flags == (IF rule1 THEN <<"sustained_negative_fcf">> ELSE <<>>)
              \o (IF rule2 THEN <<"high_growth_capex">> ELSE <<>>)
              \o (IF rule3 THEN <<"infrastructure_sector">> ELSE <<>>)
              \o (IF rule4 THEN <<"ebitda_fcf_divergence">> ELSE <<>>)
              \o (IF rule5 THEN <<"contracted_revenues">> ELSE <<>>)
              \o (IF rule6 THEN <<"high_capex_volatility">> ELSE <<>>)
    IN  [use_forward |-> Len(flags) >= 2, flags |-> flags]

(***************************************************************************)
(* FCF normalisation.  A computed amount is a record [v, np]: its value    *)
(* and whether it is a numpy scalar (np.mean, np.percentile) rather than   *)
(* a Python number; the two differ in what a division by zero does.        *)
(***************************************************************************)
Num(v, np) == [v |-> v, np |-> np]

\* _get_ebitda_baseline
GetEbitdaBaseline(d) ==
    LET ebitda_recent == LastN(d.ebitda, 3)
    IN  IF Len(d.ebitda) >= 3 /\ CvAbove(ebitda_recent, 3, 20)
        THEN Num(SumSeq(ebitda_recent) \div Len(ebitda_recent), TRUE)
        ELSE Num(Last(d.ebitda), FALSE)

\* np.percentile(s, 25), linear interpolation between the sorted values
Percentile25(s) ==
    LET sorted == SortSeq(s, LAMBDA a, b : a < b)
        lo == (Len(s) - 1) \div 4
        rem == (Len(s) - 1) % 4
    IN  IF rem = 0 THEN sorted[lo + 1]
        ELSE sorted[lo + 1] + ((sorted[lo + 2] - sorted[lo + 1]) * rem) \div 4

\* EstimateMaintenanceCapex with the sector benchmark ahead of the guidance
EstimateMaintenanceCapexBenchmarkFirst(d, sector_enum) ==
    IF sector_enum \in BenchmarkSectors
    THEN Num((Last(d.revenues) * MaintenanceCapexBenchmark(sector_enum)) \div 100, FALSE)
    ELSE IF ~IsNone(d.maintenance_capex_guidance)
    THEN Num(TheVal(d.maintenance_capex_guidance), FALSE)
    ELSE Num(Percentile25(d.capex), TRUE)

\* _estimate_maintenance_capex
EstimateMaintenanceCapex(d, sector_enum) ==
    IF ~IsNone(d.maintenance_capex_guidance)
    THEN Num(TheVal(d.maintenance_capex_guidance), FALSE)
    ELSE IF sector_enum \in BenchmarkSectors
    THEN Num((Last(d.revenues) * MaintenanceCapexBenchmark(sector_enum)) \div 100, FALSE)
    ELSE Num(Percentile25(d.capex), TRUE)

\* EstimateWcChange with the revenue formula for every sector
EstimateWcChangeRevenue(d, sector_enum) ==
    (Last(d.revenues) * d.revenue_growth_rate * 2) \div 100000

\* _estimate_wc_change
EstimateWcChange(d, sector_enum) ==
    IF sector_enum \in {"TOWERS", "TELECOM_INFRA", "UTILITIES", "PIPELINES"}
    THEN 0
    ELSE (Last(d.revenues) * d.revenue_growth_rate * 2) \div 100000

\* _calculate_forward_fcf on a classified engine
CalculateForwardFcf(d, sector_enum) ==
    LET ebitda_base == GetEbitdaBaseline(d)
        maintenance_capex == EstimateMaintenanceCapex(d, sector_enum)
        ebit == ebitda_base.v - Last(d.depreciation)
        normalized_tax == IF ebit > 0 THEN MulRate(ebit, d.effective_tax_rate) ELSE 0
        delta_wc == EstimateWcChange(d, sector_enum)
    IN  Num(ebitda_base.v - maintenance_capex.v - normalized_tax - delta_wc,
            ebitda_base.np \/ maintenance_capex.np)

\* _calculate_historical_average_fcf
CalculateHistoricalAverageFcf(d) ==
    LET recent == LastN(CalculateHistoricalFcf(d), 3)
    IN  Num(SumSeq(recent) \div Len(recent), TRUE)

\* CalculateNormalizedFcf that never takes the forward method
CalculateNormalizedFcfHistorical(d, sector_enum, vr) ==
    [fcf |-> CalculateHistoricalAverageFcf(d), method |-> "historical_average"]

\* calculate_normalized_fcf on an engine that holds validation_results vr
CalculateNormalizedFcf(d, sector_enum, vr) ==
    IF vr.use_forward_fcf
    THEN [fcf |-> CalculateForwardFcf(d, sector_enum), method |-> "forward_ebitda_based"]
    ELSE [fcf |-> CalculateHistoricalAverageFcf(d), method |-> "historical_average"]

(***************************************************************************)
(* WACC, in permille                                                       *)
(***************************************************************************)
\* ResolveAssetBeta testing the truth value of asset_beta, not its presence
ResolveAssetBetaTruthy(d, sector_enum) ==
    IF ~IsNone(d.asset_beta) /\ TheVal(d.asset_beta) # 0 THEN TheVal(d.asset_beta)
    ELSE IF sector_enum \in BenchmarkSectors THEN AssetBetaBenchmark(sector_enum)
    ELSE 60

\* the asset beta calculate_wacc resolves, in hundredths
ResolveAssetBeta(d, sector_enum) ==
    IF ~IsNone(d.asset_beta) THEN TheVal(d.asset_beta)
    ELSE IF sector_enum \in BenchmarkSectors THEN AssetBetaBenchmark(sector_enum)
    ELSE 60

\* CalculateWacc with weights 0.5 and 0.5 whatever the capital structure
CalculateWaccEqualWeights(d, sector_enum) ==
    LET cost_of_equity == d.risk_free_rate
                            + (ResolveAssetBeta(d, sector_enum) * d.market_risk_premium) \div 100
        cost_of_debt ==
            IF d.total_debt > 0
            THEN MulRate((Last(d.interest_expense) * 1000) \div d.total_debt,
                         1000 - d.effective_tax_rate)
            ELSE d.risk_free_rate + 20
    IN  (cost_of_equity + cost_of_debt) \div 2

\* calculate_wacc
CalculateWacc(d, sector_enum) ==
    LET risk_free == d.risk_free_rate
        cost_of_equity == risk_free + (ResolveAssetBeta(d, sector_enum) * d.market_risk_premium) \div 100
        total_debt == d.total_debt
        cost_of_debt ==
            IF total_debt > 0
            THEN MulRate((Last(d.interest_expense) * 1000) \div total_debt,
                         1000 - d.effective_tax_rate)
            ELSE risk_free + 20
        total_value == d.market_cap + total_debt
    IN  IF total_value > 0
        THEN (d.market_cap * cost_of_equity + total_debt * cost_of_debt) \div total_value
        ELSE (cost_of_equity + cost_of_debt) \div 2

(***************************************************************************)
(* Projection, terminal value and the result                               *)
(***************************************************************************)
\* GrowthTimesYears with a taper that starts at revenue_growth_rate in year 1
GrowthTimesYearsFromHigh(d, projection_years, custom_growth_rates, year) ==
    IF ~IsNone(custom_growth_rates)
    THEN projection_years *
           (IF year <= Len(TheVal(custom_growth_rates))
            THEN TheVal(custom_growth_rates)[year] ELSE d.terminal_growth_rate)
    ELSE IF year = projection_years /\ year > 1
    THEN d.terminal_growth_rate * year
    ELSE d.revenue_growth_rate * (projection_years - (year - 1))
           + d.terminal_growth_rate * (year - 1)

\* GrowthTimesYears with a short schedule extended by revenue_growth_rate
GrowthTimesYearsHighRate(d, projection_years, custom_growth_rates, year) ==
    IF ~IsNone(custom_growth_rates)
    THEN projection_years *
           (IF year <= Len(TheVal(custom_growth_rates))
            THEN TheVal(custom_growth_rates)[year] ELSE d.revenue_growth_rate)
    ELSE d.revenue_growth_rate * (projection_years - year)
           + d.terminal_growth_rate * year

\* the growth rate (permille, times the horizon) of year `year`
\* extended_rates[year - 1], or the tapering formula
GrowthTimesYears(d, projection_years, custom_growth_rates, year) ==
    IF ~IsNone(custom_growth_rates)
    THEN LET rates == TheVal(custom_growth_rates)
         IN  projection_years *
               (IF year <= Len(rates) THEN rates[year] ELSE d.terminal_growth_rate)
    ELSE d.revenue_growth_rate * (projection_years - year)
           + d.terminal_growth_rate * year

\* projected_fcf: year i grows the previous year's FCF by its growth rate
RECURSIVE ProjectFcf(_, _, _, _, _)
ProjectFcf(d, projection_years, custom_growth_rates, fcf_prev, year) ==
    IF year > projection_years THEN <<>>
    ELSE LET g == GrowthTimesYears(d, projection_years, custom_growth_rates, year)
             fcf_year == (fcf_prev * (1000 * projection_years + g))
                            \div (1000 * projection_years)
         IN  <<fcf_year>> \o
             ProjectFcf(d, projection_years, custom_growth_rates, fcf_year, year + 1)

\* x / (1 + wacc) ** k
RECURSIVE Discount(_, _, _)
Discount(x, wacc, k) ==
    IF k <= 0 THEN x ELSE Discount((x * 1000) \div (1000 + wacc), wacc, k - 1)

\* a ValuationResult never built: the exception calculate_valuation raises
Raised(kind) ==
    [outcome |-> kind, enterprise_value |-> 0, equity_value |-> 0,
     intrinsic_value_per_share |-> 0, normalized_fcf |-> 0, wacc |-> 0,
     method |-> "dcf_fcff", forward_fcf_used |-> FALSE, flags |-> <<>>,
     pv_explicit_period |-> 0, pv_terminal_value |-> 0, projected_fcf |-> <<>>,
     terminal_value |-> 0, finite |-> "raised", company_name |-> "",
     sector |-> <<>>, sector_override |-> FALSE, original_sector |-> <<>>]

\* BuildResult with equity value net of gross debt instead of net debt
BuildResultGrossDebt(d, vr, normalized_fcf, wacc, projected_fcf, terminal_value, finite, pv_fcf, pv_terminal, enterprise_value) ==
    [outcome |-> "ok",
     enterprise_value |-> IF finite = "finite" THEN enterprise_value ELSE 0,
     equity_value |-> IF finite = "finite" THEN enterprise_value - d.total_debt ELSE 0,
     intrinsic_value_per_share |->
        IF d.shares_outstanding > 0 /\ finite = "finite"
        THEN (enterprise_value - d.total_debt) \div d.shares_outstanding
        ELSE 0,
     normalized_fcf |-> normalized_fcf.v,
     wacc |-> wacc,
     method |-> "dcf_fcff",
     forward_fcf_used |-> vr.use_forward_fcf,
     flags |-> vr.flags,
     pv_explicit_period |-> pv_fcf,
     pv_terminal_value |-> pv_terminal,
     projected_fcf |-> projected_fcf,
     terminal_value |-> terminal_value,
     finite |-> finite,
     company_name |-> d.company_name,
     sector |-> vr.sector,
     sector_override |-> vr.sector_override,
     original_sector |-> vr.original_sector]

\* calculate_valuation, Steps 7 to 9 and the result object.  `finite`
\* tells whether a numpy division by zero made the terminal value (and so
\* every value derived from it) inf, -inf or nan; the numeric fields derived
\* from it are then recorded as 0.
BuildResult(d, vr, normalized_fcf, wacc, projected_fcf, terminal_value, finite, pv_fcf, pv_terminal, enterprise_value) ==
    [outcome |-> "ok",
     enterprise_value |-> IF finite = "finite" THEN enterprise_value ELSE 0,
     equity_value |-> IF finite = "finite" THEN enterprise_value - d.net_debt ELSE 0,
     intrinsic_value_per_share |->
        IF d.shares_outstanding > 0 /\ finite = "finite"
        THEN (enterprise_value - d.net_debt) \div d.shares_outstanding
        ELSE 0,
     normalized_fcf |-> normalized_fcf.v,
     wacc |-> wacc,
     method |-> "dcf_fcff",
     forward_fcf_used |-> vr.use_forward_fcf,
     flags |-> vr.flags,
     pv_explicit_period |-> pv_fcf,
     pv_terminal_value |-> pv_terminal,
     projected_fcf |-> projected_fcf,
     terminal_value |-> terminal_value,
     finite |-> finite,
     company_name |-> d.company_name,
     sector |-> vr.sector,
     sector_override |-> vr.sector_override,
     original_sector |-> vr.original_sector]

\* calculate_valuation, Step 6: present values
PresentValues(d, vr, normalized_fcf, wacc, projection_years, projected_fcf, terminal_value, finite) ==
    LET pv_fcf == SumSeq([i \in 1..Len(projected_fcf) |->
                             Discount(projected_fcf[i], wacc, i)])
        pv_terminal == Discount(terminal_value, wacc, projection_years)
    IN  BuildResult(d, vr, normalized_fcf, wacc, projected_fcf, terminal_value,
                    finite, pv_fcf, pv_terminal, pv_fcf + pv_terminal)

\* TerminalValue in which a zero spread never raises
TerminalValueNeverRaises(d, vr, normalized_fcf, wacc, projection_years, projected_fcf, terminal_fcf, spread) ==
    PresentValues(d, vr, normalized_fcf, wacc, projection_years, projected_fcf,
                  IF spread # 0 THEN (terminal_fcf * 1000) \div spread ELSE 0,
                  IF spread # 0 THEN "finite"
                  ELSE IF terminal_fcf > 0 THEN "inf"
                  ELSE IF terminal_fcf < 0 THEN "-inf" ELSE "nan")

\* calculate_valuation, Step 5: terminal value.  A zero spread divides by
\* zero: ZeroDivisionError for Python numbers, inf, -inf or nan for numpy.
TerminalValue(d, vr, normalized_fcf, wacc, projection_years, projected_fcf, terminal_fcf, spread) ==
    IF spread = 0 /\ ~normalized_fcf.np THEN Raised("ZeroDivisionError")
    ELSE PresentValues(d, vr, normalized_fcf, wacc, projection_years, projected_fcf,
                       IF spread # 0 THEN (terminal_fcf * 1000) \div spread ELSE 0,
                       IF spread # 0 THEN "finite"
                       ELSE IF terminal_fcf > 0 THEN "inf"
                       ELSE IF terminal_fcf < 0 THEN "-inf" ELSE "nan")

\* calculate_valuation, from projected_fcf[-1] on (IndexError on an empty
\* projection)
AfterProjection(d, vr, normalized_fcf, wacc, projection_years, projected_fcf) ==
    IF projected_fcf = <<>> THEN Raised("IndexError")
    ELSE TerminalValue(d, vr, normalized_fcf, wacc, projection_years, projected_fcf,
                       MulRate(Last(projected_fcf), 1000 + d.terminal_growth_rate),
                       wacc - d.terminal_growth_rate)

\* calculate_valuation, Steps 4 to 9 and the result object, from the
\* normalized FCF and WACC of Steps 2 and 3 and the validation_results vr
\* read when the result is built
Project(d, vr, normalized_fcf, wacc, projection_years, custom_growth_rates) ==
    AfterProjection(d, vr, normalized_fcf, wacc, projection_years,
                    ProjectFcf(d, projection_years, custom_growth_rates,
                               normalized_fcf.v, 1))

(***************************************************************************)
(* The engine: InfrastructureDCF                                           *)
(***************************************************************************)
\* __init__: an engine bound to record r, nothing cached
FreshEngine(r) == [rec |-> r, validation_results |-> None, sector_enum |-> NoSector]

\* StoreSector with the default branch writing the record too
StoreSectorAlsoOther(d, e, s) ==
    [data |-> [d EXCEPT !.sector = SectorValue(s)],
     eng |-> [e EXCEPT !.sector_enum = s]]

\* the two assignments of a branch of _classify_sector that found member s
\* (the default branch, OTHER, does not write the record)
StoreSector(d, e, s) ==
    [data |-> IF s = "OTHER" THEN d ELSE [d EXCEPT !.sector = SectorValue(s)],
     eng |-> [e EXCEPT !.sector_enum = s]]

\* _classify_sector on record d and engine e: the record and engine it leaves
ClassifySector(d, e) == StoreSector(d, e, ClassifiedSector(d))

\* the dictionary validate_and_classify stores in validation_results
ValidationResults(det, sector_enum, original_sector, current_sector) ==
    [use_forward_fcf |-> det.use_forward,
     flags |-> det.flags,
     sector |-> IF sector_enum # NoSector THEN SectorValue(sector_enum) ELSE current_sector,
     sector_override |-> original_sector # current_sector,
     original_sector |-> original_sector]

\* validate_and_classify after _classify_sector left record d and engine e:
\* detection, and the dictionary stored
DetectAndStore(original_sector, d, e) ==
    [data |-> d,
     eng |-> [e EXCEPT !.validation_results =
                Some(ValidationResults(
                        ShouldUseForwardFcf(d, e.sector_enum, CalculateHistoricalFcf(d)),
                        e.sector_enum, original_sector, d.sector))]]

\* what is left of validate_and_classify once _classify_sector returned c
AfterClassify(original_sector, c) == DetectAndStore(original_sector, c.data, c.eng)

\* validate_and_classify on record d and engine e: the record and the
\* engine it leaves
ValidateAndClassifyEffect(d, e) == AfterClassify(d.sector, ClassifySector(d, e))

\* calculate_valuation from Step 2 on, on record d and an engine with
\* _sector_enum and validation_results vr
Valuation(d, sector_enum, vr, projection_years, custom_growth_rates) ==
    Project(d, vr, CalculateNormalizedFcf(d, sector_enum, vr).fcf,
            CalculateWacc(d, sector_enum), projection_years, custom_growth_rates)

\* calculate_valuation once Step 1 left pre = [data, eng]
AfterValidation(pre, projection_years, custom_growth_rates) ==
    [data |-> pre.data,
     eng |-> pre.eng,
     result |-> Valuation(pre.data, pre.eng.sector_enum,
                          TheVal(pre.eng.validation_results),
                          projection_years, custom_growth_rates)]

\* CalculateValuationEffect with Step 1 run on every call (no cache)
CalculateValuationRevalidates(d, e, projection_years, custom_growth_rates) ==
    AfterValidation(ValidateAndClassifyEffect(d, e),
                    projection_years, custom_growth_rates)

\* calculate_valuation on record d and engine e: the record and the engine
\* it leaves, and the ValuationResult it returns (or the exception)
CalculateValuationEffect(d, e, projection_years, custom_growth_rates) ==
    AfterValidation(IF IsNone(e.validation_results)
                    THEN ValidateAndClassifyEffect(d, e)
                    ELSE [data |-> d, eng |-> e],
                    projection_years, custom_growth_rates)

(***************************************************************************)
(* Records a caller constructs                                             *)
(***************************************************************************)
\* CompanyFinancials(...) with the dataclass defaults for every field the
\* caller does not pass
Financials(sector, revenues, ebitda, depreciation, interest_expense, capex, total_debt, cash, total_assets, market_cap, shares_outstanding) ==
    [company_name |-> "Co", sector |-> sector,
     revenues |-> revenues, ebitda |-> ebitda, depreciation |-> depreciation,
     interest_expense |-> interest_expense, capex |-> capex,
     operating_cash_flow |-> None,
     total_debt |-> total_debt, cash |-> cash, total_assets |-> total_assets,
     total_equity |-> 0, market_cap |-> market_cap,
     shares_outstanding |-> shares_outstanding, current_price |-> 0,
     risk_free_rate |-> 25, market_risk_premium |-> 60, effective_tax_rate |-> 250,
     maintenance_capex_guidance |-> None, revenue_growth_rate |-> 30,
     terminal_growth_rate |-> 20, avg_contract_duration |-> None,
     asset_beta |-> None, dividend_per_share |-> 0, net_debt |-> 0]

L_towers == <<"t","o","w","e","r","s">>
L_telecommunications == <<"t","e","l","e","c","o","m","m","u","n","i","c","a","t","i","o","n","s">>
L_other == <<"o","t","h","e","r">>
L_Telecom_Tower == <<"T","e","l","e","c","o","m"," ","T","o","w","e","r">>
L_utility_pipeline == <<"u","t","i","l","i","t","y"," ","p","i","p","e","l","i","n","e">>
L_infrastructure == <<"i","n","f","r","a","s","t","r","u","c","t","u","r","e">>
L_Data_Center == <<"D","a","t","a"," ","C","e","n","t","e","r">>
L_REIT == <<"R","E","I","T">>
L_toll_road == <<"t","o","l","l"," ","r","o","a","d">>
L_Airport == <<"A","i","r","p","o","r","t">>

Labels ==
    {L_towers, L_telecommunications, L_other, L_Telecom_Tower, L_utility_pipeline,
     L_infrastructure, L_Data_Center, L_REIT, L_toll_road, L_Airport}

\* test_tower_company_fingerprint_detection
TowerTestArgs ==
    Financials(L_telecommunications, <<1000, 1100, 1200>>, <<600, 660, 720>>,
               <<150, 165, 180>>, <<200, 220, 240>>, <<500, 1500, 200>>,
               5000, 100, 4000, 3000, 100)

\* test_reit_fingerprint_detection
ReitTestArgs ==
    Financials(L_other, <<1000, 1050, 1100>>, <<650, 680, 710>>,
               <<200, 210, 220>>, <<150, 155, 160>>, <<100, 110, 120>>,
               3000, 50, 6000, 4000, 200)

\* test_valid_financials_creation with the label of a data-centre operator
DataCenterArgs ==
    Financials(L_Data_Center, <<1000, 1100, 1200>>, <<500, 550, 600>>,
               <<100, 110, 120>>, <<50, 55, 60>>, <<300, 350, 400>>,
               2000, 100, 0, 5000, 100)

\* test_no_flags_for_stable_company
StableArgs ==
    Financials(L_other, <<1000, 1020, 1040>>, <<300, 306, 312>>,
               <<100, 102, 104>>, <<30, 31, 32>>, <<80, 82, 84>>,
               0, 0, 0, 0, 0)

\* the records Spec and SpecSteps start from
MainArgs == {TowerTestArgs, ReitTestArgs, DataCenterArgs, StableArgs}

\* the records SpecClassify starts from: every label, with revenues that
\* are stable, volatile, or zero in an earlier period, and with the latest
\* EBITDA, the assets and the debt on both sides of every fingerprint
\* threshold (latest revenue 1100: margins 0.50 and 0.60 are 550 and 660;
\* asset intensities 3, 8 and 15 are 3300, 8800 and 16500)
WideArgs ==
    {Financials(label, rev, <<600, 620, e>>, <<200, 210, 220>>,
                <<150, 155, 160>>, <<100, 110, 120>>, debt, 50, assets, 4000, 200) :
        label \in Labels,
        rev \in {<<1000, 1050, 1100>>, <<1000, 500, 1100>>, <<0, 1000, 1100>>},
        e \in {0, 550, 551, 660, 661},
        assets \in {3300, 3301, 8800, 8801, 16499, 16500},
        debt \in {0, 2204, 2205, 2644, 2645}}

(***************************************************************************)
(* State                                                                   *)
(***************************************************************************)
RecIds == {1, 2}

EngIds == {1, 2}

Threads == {1, 2}

VARIABLES
    data,      \* data[r]: the CompanyFinancials object r, owned by the caller
    rec0,      \* the record as the caller constructed it
    eng,       \* eng[e]: the InfrastructureDCF object e
    ret,       \* ret[e]: what the caller has got back from engine e
    last_op,   \* the operation the last step performed
    nops,      \* operations performed so far
    budget,    \* operations one behaviour performs
    th,        \* th[t]: a thread inside calculate_valuation (SpecSteps)
    shared,    \* SpecSteps: both threads use engine 1 and record 1
    ctor,      \* the last constructor call and its outcome (SpecCtor)
    refs       \* the list object each flags field refers to (SpecAlias)

vars == <<data, rec0, eng, ret, last_op, nops, budget, th, shared, ctor, refs>>

\* ret[e].result and .prev are the results of the last call of
\* calculate_valuation and of the one before; .clean: nothing happened to
\* the engine or its record since the last call; .mutated: the caller has
\* changed the record since the engine's cache was filled; .repeat: the last
\* call repeated the arguments of the one before with nothing in between;
\* .after_mutation: the last call came after a valuation and a mutation
NoRet == [ncalls |-> 0, args |-> None, result |-> None, prev |-> None,
          clean |-> FALSE, mutated |-> FALSE, repeat |-> FALSE,
          after_mutation |-> FALSE]

IdleThread(t) ==
    [pc |-> "idle", eng |-> t, calls |-> 0, projection_years |-> 0,
     custom_growth_rates |-> None, cached_at_entry |-> FALSE, trace |-> <<>>,
     original_sector |-> <<>>, cls |-> NoSector,
     det |-> [use_forward |-> FALSE, flags |-> <<>>],
     fcf |-> Num(0, FALSE), wacc |-> 0, result |-> None]

NoCtor == [called |-> FALSE,
          lens |-> [revenues |-> 0, ebitda |-> 0, depreciation |-> 0,
                    interest_expense |-> 0, capex |-> 0],
          outcome |-> "none", obj |-> None]

\* refs.cache[e], refs.result[e] and refs.prev[e] name the list object that
\* validation_results['flags'] of engine e, the flags of the last result
\* and the flags of the result before refer to (0: none); refs.next is the
\* next list to be created
NoRefs == [next |-> 1, cache |-> [e \in EngIds |-> 0],
           result |-> [e \in EngIds |-> 0], prev |-> [e \in EngIds |-> 0]]

\* the state after  rec = CompanyFinancials(**a); engines = InfrastructureDCF(rec)
InitWith(a, b) ==
    /\ ValidateData(a) = "ok"
    /\ data = [r \in RecIds |-> PostInit(a)]
    /\ rec0 = PostInit(a)
    /\ eng = [e \in EngIds |-> FreshEngine(1)]
    /\ ret = [e \in EngIds |-> NoRet]
    /\ last_op = [kind |-> "init", eng |-> 0]
    /\ nops = 0
    /\ budget = b
    /\ th = [t \in Threads |-> IdleThread(t)]
    /\ shared = TRUE
    /\ ctor = NoCtor
    /\ refs = NoRefs

Init == \E a \in MainArgs : InitWith(a, MaxOps)

\* the arguments callers pass to calculate_valuation
YearsArgs == 1..MaxYears

RatesArgs == {None, Some(<<80>>)}

(***************************************************************************)
(* Operations of Spec: whole calls                                         *)
(***************************************************************************)
\* dcf = InfrastructureDCF(financials) on the record, replacing engine e
NewEngine(e) ==
    /\ nops < budget
    /\ eng' = [eng EXCEPT ![e] = FreshEngine(1)]
    /\ ret' = [ret EXCEPT ![e] = NoRet]
    /\ last_op' = [kind |-> "new_engine", eng |-> e]
    /\ nops' = nops + 1
    /\ UNCHANGED <<data, rec0, budget, th, shared, ctor, refs>>

\* dcf.validate_and_classify()
ValidateAndClassify(e) ==
    /\ nops < budget
    /\ \E eff \in {ValidateAndClassifyEffect(data[eng[e].rec], eng[e])} :
           /\ data' = [data EXCEPT ![eng[e].rec] = eff.data]
           /\ eng' = [eng EXCEPT ![e] = eff.eng]
    /\ ret' = [ret EXCEPT ![e].clean = FALSE, ![e].mutated = FALSE]
    /\ last_op' = [kind |-> "validate", eng |-> e]
    /\ nops' = nops + 1
    /\ UNCHANGED <<rec0, budget, th, shared, ctor, refs>>

\* result = dcf.calculate_valuation(projection_years, custom_growth_rates)
CalculateValuation(e, projection_years, custom_growth_rates) ==
    /\ nops < budget
    /\ \E eff \in {CalculateValuationEffect(data[eng[e].rec], eng[e],
                                               projection_years, custom_growth_rates)} :
           /\ data' = [data EXCEPT ![eng[e].rec] = eff.data]
           /\ eng' = [eng EXCEPT ![e] = eff.eng]
           /\ ret' = [ret EXCEPT ![e] =
                        [ncalls |-> @.ncalls + 1,
                         args |-> Some(<<projection_years, custom_growth_rates>>),
                         result |-> Some(eff.result),
                         prev |-> @.result,
                         clean |-> TRUE,
                         mutated |-> IF IsNone(eng[e].validation_results)
                                     THEN FALSE ELSE @.mutated,
                         repeat |-> @.ncalls >= 1 /\ @.clean
                                    /\ @.args = Some(<<projection_years, custom_growth_rates>>),
                         after_mutation |-> @.ncalls >= 1 /\ @.mutated]]
    /\ last_op' = [kind |-> "calc", eng |-> e]
    /\ nops' = nops + 1
    /\ UNCHANGED <<rec0, budget, th, shared, ctor, refs>>

\* the attribute assignments callers make on a record (sensitivity sweeps,
\* restatements): CompanyFinancials is a plain dataclass, so an assignment
\* stores the value and nothing else
SetField(d, f, v) ==
    CASE f = "total_debt" -> [d EXCEPT !.total_debt = v]
      [] f = "cash" -> [d EXCEPT !.cash = v]
      [] f = "effective_tax_rate" -> [d EXCEPT !.effective_tax_rate = v]
      [] f = "capex" -> [d EXCEPT !.capex = v]
      [] f = "ebitda" -> [d EXCEPT !.ebitda = v]
      [] f = "avg_contract_duration" -> [d EXCEPT !.avg_contract_duration = v]
      [] f = "asset_beta" -> [d EXCEPT !.asset_beta = v]
      [] f = "terminal_growth_rate" -> [d EXCEPT !.terminal_growth_rate = v]

Assignments ==
    {<<"total_debt", 6000>>, <<"cash", 500>>, <<"effective_tax_rate", 300>>,
     <<"capex", <<2000, 2000, 2000>> >>, <<"ebitda", <<100, 100, 100>> >>,
     <<"avg_contract_duration", Some(15)>>, <<"asset_beta", Some(58)>>,
     <<"terminal_growth_rate", 15>>}

\* financials.<field> = value
Mutate(asg) ==
    /\ nops < budget
    /\ SetField(data[1], asg[1], asg[2]) # data[1]
    /\ data' = [data EXCEPT ![1] = SetField(@, asg[1], asg[2])]
    /\ ret' = [e \in EngIds |->
                 IF eng[e].rec = 1
                 THEN [ret[e] EXCEPT !.clean = FALSE,
                                     !.mutated = ~IsNone(eng[e].validation_results)]
                 ELSE ret[e]]
    /\ last_op' = [kind |-> "mutate", eng |-> 0]
    /\ nops' = nops + 1
    /\ UNCHANGED <<rec0, eng, budget, th, shared, ctor, refs>>

Next ==
    \/ \E e \in EngIds : NewEngine(e)
    \/ \E e \in EngIds : ValidateAndClassify(e)
    \/ \E e \in EngIds, y \in YearsArgs, g \in RatesArgs : CalculateValuation(e, y, g)
    \/ \E asg \in Assignments : Mutate(asg)

Spec == Init /\ [][Next]_vars

(***************************************************************************)
(* SpecClassify: classification and valuation applied once to each of a    *)
(* wide set of records                                                     *)
(***************************************************************************)
InitWide == \E a \in WideArgs : InitWith(a, 1)

SpecClassify == InitWide /\ [][Next]_vars

(***************************************************************************)
(* SpecCtor: constructor calls with series of every length                 *)
(***************************************************************************)
\* CompanyFinancials(**a): the outcome of __post_init__ and the object the
\* caller gets (none when _validate_data raises)
ConstructEffect(a) ==
    LET obj == PostInit(a)
        outcome == ValidateData(obj)
    IN  [outcome |-> outcome, obj |-> IF outcome = "ok" THEN Some(obj) ELSE None]

SeriesOf(n, v) == [i \in 1..n |-> v + 10 * i]

Lens == 0..MaxLen

Construct(lr, le, ld, li, lc) ==
    /\ ~ctor.called
    /\ LET a == Financials(L_towers, SeriesOf(lr, 1000), SeriesOf(le, 500),
                           SeriesOf(ld, 100), SeriesOf(li, 50), SeriesOf(lc, 300),
                           2000, 100, 4000, 5000, 100)
       IN  \E eff \in {ConstructEffect(a)} : ctor' = [called |-> TRUE,
                    lens |-> [revenues |-> lr, ebitda |-> le, depreciation |-> ld,
                              interest_expense |-> li, capex |-> lc],
                    outcome |-> eff.outcome, obj |-> eff.obj]
    /\ UNCHANGED <<data, rec0, eng, ret, last_op, nops, budget, th, shared, refs>>

InitCtor == InitWith(TowerTestArgs, 0)

NextCtor == \E lr \in Lens, le \in Lens, ld \in Lens, li \in Lens, lc \in Lens :
                Construct(lr, le, ld, li, lc)

SpecCtor == InitCtor /\ [][NextCtor]_vars

(***************************************************************************)
(* SpecSteps: calculate_valuation statement by statement, called by two    *)
(* threads.  With `shared` both threads call the same engine, bound to the *)
(* same record; otherwise each thread has its own record snapshot and its  *)
(* own engine.  A step is one stage of the call; the interpreter may       *)
(* switch threads between any two of them.                                 *)
(***************************************************************************)
InitSteps ==
    \E a \in MainArgs, sh \in BOOLEAN :
        /\ ValidateData(a) = "ok"
        /\ data = [r \in RecIds |-> PostInit(a)]
        /\ rec0 = PostInit(a)
        /\ shared = sh
        /\ eng = [e \in EngIds |-> FreshEngine(IF sh THEN 1 ELSE e)]
        /\ th = [t \in Threads |-> [IdleThread(t) EXCEPT !.eng = IF sh THEN 1 ELSE t]]
        /\ ret = [e \in EngIds |-> NoRet]
        /\ last_op = [kind |-> "init", eng |-> 0]
        /\ nops = 0
        /\ budget = 0
        /\ ctor = NoCtor
        /\ refs = NoRefs

StepFrame == UNCHANGED <<rec0, ret, last_op, nops, budget, shared, ctor, refs>>

\* the thread enters calculate_valuation(projection_years, custom_growth_rates)
Call(t, projection_years, custom_growth_rates) ==
    /\ th[t].pc \in {"idle", "done"}
    /\ th[t].calls < MaxCalls
    /\ th' = [th EXCEPT ![t] = [@ EXCEPT !.pc = "cv_check",
                                         !.calls = @ + 1,
                                         !.projection_years = projection_years,
                                         !.custom_growth_rates = custom_growth_rates,
                                         !.trace = <<>>,
                                         !.result = None]]
    /\ UNCHANGED <<data, eng>>
    /\ StepFrame

\* EntryPc with Step 1 run on every call
EntryPcAlwaysValidates(e) == "vc_orig"

\* Step 1 of calculate_valuation: where the call continues
EntryPc(e) == IF IsNone(e.validation_results) THEN "vc_orig" ELSE "norm"

\* if self.validation_results is None:
CvCheck(t) ==
    /\ th[t].pc = "cv_check"
    /\ th' = [th EXCEPT ![t] = [@ EXCEPT !.pc = EntryPc(eng[th[t].eng]),
                                         !.cached_at_entry =
                                             ~IsNone(eng[th[t].eng].validation_results)]]
    /\ UNCHANGED <<data, eng>>
    /\ StepFrame

\* original_sector = self.data.sector
VcOrig(t) ==
    /\ th[t].pc = "vc_orig"
    /\ th' = [th EXCEPT ![t] = [@ EXCEPT !.pc = "vc_classify",
                                         !.original_sector =
                                             data[eng[th[t].eng].rec].sector]]
    /\ UNCHANGED <<data, eng>>
    /\ StepFrame

\* _classify_sector up to  self._sector_enum = <member>
VcClassify(t) ==
    /\ th[t].pc = "vc_classify"
    /\ \E s \in {ClassifiedSector(data[eng[th[t].eng].rec])} :
           /\ eng' = [eng EXCEPT ![th[t].eng] = StoreSector(data[@.rec], @, s).eng]
           /\ th' = [th EXCEPT ![t] = [@ EXCEPT !.pc = "vc_label",
                                                !.cls = s,
                                                !.trace = Append(@, "classification")]]
    /\ UNCHANGED data
    /\ StepFrame

\* VcLabel without the assignment to the record
VcLabelSkipped(t) ==
    /\ th[t].pc = "vc_label"
    /\ th' = [th EXCEPT ![t].pc = "vc_detect"]
    /\ UNCHANGED <<data, eng>>
    /\ StepFrame

\* self.data.sector = <member>.value
VcLabel(t) ==
    /\ th[t].pc = "vc_label"
    /\ data' = [data EXCEPT ![eng[th[t].eng].rec] =
                   StoreSector(@, eng[th[t].eng], th[t].cls).data]
    /\ th' = [th EXCEPT ![t].pc = "vc_detect"]
    /\ UNCHANGED eng
    /\ StepFrame

\* historical_fcf = ...; use_forward, flags = self._should_use_forward_fcf(...)
VcDetect(t) ==
    /\ th[t].pc = "vc_detect"
    /\ th' = [th EXCEPT ![t] =
                [@ EXCEPT !.pc = "vc_store",
                          !.det = ShouldUseForwardFcf(
                                      data[eng[th[t].eng].rec],
                                      eng[th[t].eng].sector_enum,
                                      CalculateHistoricalFcf(data[eng[th[t].eng].rec])),
                          !.trace = Append(@, "detection")]]
    /\ UNCHANGED <<data, eng>>
    /\ StepFrame

\* self.validation_results = {...}
VcStore(t) ==
    /\ th[t].pc = "vc_store"
    /\ eng' = [eng EXCEPT ![th[t].eng].validation_results =
                  Some(ValidationResults(th[t].det, eng[th[t].eng].sector_enum,
                                         th[t].original_sector,
                                         data[eng[th[t].eng].rec].sector))]
    /\ th' = [th EXCEPT ![t].pc = "norm"]
    /\ UNCHANGED data
    /\ StepFrame

\* Step 2: normalized_fcf, fcf_method = self.calculate_normalized_fcf()
Norm(t) ==
    /\ th[t].pc = "norm"
    /\ th' = [th EXCEPT ![t] =
                [@ EXCEPT !.pc = "wacc",
                          !.fcf = CalculateNormalizedFcf(
                                      data[eng[th[t].eng].rec],
                                      eng[th[t].eng].sector_enum,
                                      TheVal(eng[th[t].eng].validation_results)).fcf,
                          !.trace = Append(@, "normalization")]]
    /\ UNCHANGED <<data, eng>>
    /\ StepFrame

\* Step 3: wacc = self.calculate_wacc()
Wacc(t) ==
    /\ th[t].pc = "wacc"
    /\ th' = [th EXCEPT ![t] =
                [@ EXCEPT !.pc = "project",
                          !.wacc = CalculateWacc(data[eng[th[t].eng].rec],
                                                 eng[th[t].eng].sector_enum),
                          !.trace = Append(@, "wacc")]]
    /\ UNCHANGED <<data, eng>>
    /\ StepFrame

\* Steps 4 to 9 and  return result
ProjectAndReturn(t) ==
    /\ th[t].pc = "project"
    /\ th' = [th EXCEPT ![t] =
                [@ EXCEPT !.pc = "done",
                          !.result = Some(Project(
                                      data[eng[th[t].eng].rec],
                                      TheVal(eng[th[t].eng].validation_results),
                                      th[t].fcf, th[t].wacc,
                                      th[t].projection_years,
                                      th[t].custom_growth_rates)),
                          !.trace = Append(@, "projection"),
                          !.original_sector = <<>>,
                          !.cls = NoSector,
                          !.det = [use_forward |-> FALSE, flags |-> <<>>],
                          !.fcf = Num(0, FALSE),
                          !.wacc = 0]]
    /\ UNCHANGED <<data, eng>>
    /\ StepFrame

NextSteps ==
    \/ \E t \in Threads, y \in YearsArgs, g \in RatesArgs : Call(t, y, g)
    \/ \E t \in Threads : CvCheck(t)
    \/ \E t \in Threads : VcOrig(t)
    \/ \E t \in Threads : VcClassify(t)
    \/ \E t \in Threads : VcLabel(t)
    \/ \E t \in Threads : VcDetect(t)
    \/ \E t \in Threads : VcStore(t)
    \/ \E t \in Threads : Norm(t)
    \/ \E t \in Threads : Wacc(t)
    \/ \E t \in Threads : ProjectAndReturn(t)

SpecSteps == InitSteps /\ [][NextSteps]_vars

(***************************************************************************)
(* SpecMethods: the methods of an engine called directly, as the tests do, *)
(* on records with 3 to 5 periods, with and without an operating cash flow *)
(* series, capex guidance, debt, market capitalisation and shares          *)
(***************************************************************************)
\* a series whose first entries are `head` and whose last three are a, b, c
Series3(n, head, a, b, c) == [i \in 1..(n - 3) |-> head] \o <<a, b, c>>

\* records for the detector: EBITDA of every sign and capex on both sides
\* of it in the last three periods, capex above EBITDA before them
CapexArgs ==
    {Financials(L_other, Series3(n, 1000, 1000, 1000, 1000), Series3(n, 100, e1, e2, e3),
                SeriesOf(n, 20), SeriesOf(n, 10), Series3(n, 150, c1, c2, c3),
                0, 0, 0, 1000, 100) :
        n \in 3..5, e1 \in {-100, 0, 200}, e2 \in {-100, 0, 200}, e3 \in {-100, 0, 200},
        c1 \in {50, 300}, c2 \in {50, 300}, c3 \in {50, 300}}

\* operating cash flow series: every series of 0, 2, 3, 4 or 5 entries
\* that are below or above the capex of the record
OcfSeries == UNION {[1..k -> {100, 600}] : k \in {0, 2, 3, 4, 5}}

\* records with an operating cash flow series, which _validate_data does
\* not compare with the other series
OcfArgs ==
    {[Financials(L_other, Series3(n, 1000, 1000, 1000, 1000), SeriesOf(n, 500), SeriesOf(n, 100),
                 SeriesOf(n, 50), SeriesOf(n, 300), 0, 0, 0, 1000, 100)
        EXCEPT !.operating_cash_flow = Some(ocf)] :
        n \in 3..5, ocf \in OcfSeries}

\* records for the forward method: labels of sectors with and without a
\* working-capital change, with and without capex guidance, EBITDA that is
\* stable, volatile, or below depreciation
ForwardArgs ==
    {[Financials(label, <<2000, 2100, 2200>>, eb, <<200, 210, 220>>,
                 <<150, 155, 160>>, <<100, 110, 120>>, 2000, 50, 0, 4000, 200)
        EXCEPT !.maintenance_capex_guidance = m] :
        label \in {L_towers, L_telecommunications, L_utility_pipeline, L_other,
                   L_REIT, L_Data_Center, SectorValue("PIPELINES"), L_toll_road,
                   L_Airport},
        eb \in {<<600, 620, 640>>, <<100, 300, 500>>, <<50, 60, 70>>},
        m \in {None, Some(0), Some(70)}}

\* records for WACC and the terminal value: with and without debt, market
\* capitalisation and shares, asset betas that put the WACC below, at and
\* above the terminal growth rate
WaccArgs ==
    {[Financials(label, <<1000, 1050, 1100>>, <<600, 620, 640>>, <<200, 210, 220>>,
                 <<150, 155, 160>>, <<100, 110, 120>>, debt, 50, 0, cap, shares)
        EXCEPT !.asset_beta = beta, !.terminal_growth_rate = tg,
               !.avg_contract_duration = Some(10)] :
        label \in {L_towers, L_other}, debt \in {0, 2000}, cap \in {0, 5000},
        shares \in {0, 100}, beta \in {None, Some(0), Some(58)}, tg \in {20, 25, 30}}

\* records labelled with the value of each member of InfrastructureSector,
\* the string _classify_sector writes into a record; no fingerprint matches
CanonicalArgs ==
    {Financials(SectorValue(s), <<1000, 1050, 1100>>, <<300, 310, 320>>,
                <<100, 105, 110>>, <<50, 55, 60>>, <<100, 110, 120>>,
                1000, 50, 2000, 4000, 200) : s \in InfrastructureSector}

MethodArgs == CapexArgs \cup OcfArgs \cup ForwardArgs \cup WaccArgs \cup CanonicalArgs

InitMethods == \E a \in MethodArgs : InitWith(a, 2)

\* the growth schedules passed to calculate_valuation: none, shorter than
\* the horizon, and longer than it
ScheduleArgs == {None, Some(<<80>>), Some(<<80, -50, 40, 10>>)}

\* `if self._sector_enum is None: self._classify_sector()`
EnsureClassified(d, e) ==
    IF e.sector_enum = NoSector THEN ClassifySector(d, e) ELSE [data |-> d, eng |-> e]

\* `if self.validation_results is None: self.validate_and_classify()`
EnsureValidated(d, e) ==
    IF IsNone(e.validation_results) THEN ValidateAndClassifyEffect(d, e)
    ELSE [data |-> d, eng |-> e]

\* what a direct call leaves: the record and engine of `eff`, and the value
\* returned in last_op
Returned(e, kind, eff, value) ==
    /\ nops < budget
    /\ data' = [data EXCEPT ![eng[e].rec] = eff.data]
    /\ eng' = [eng EXCEPT ![e] = eff.eng]
    /\ ret' = [ret EXCEPT ![e].clean = FALSE]
    /\ last_op' = [kind |-> kind, eng |-> e, value |-> value]
    /\ nops' = nops + 1
    /\ UNCHANGED <<rec0, budget, th, shared, ctor, refs>>

\* dcf._calculate_historical_fcf()
CallCalculateHistoricalFcf(e) ==
    \E value \in {CalculateHistoricalFcf(data[eng[e].rec])} :
        Returned(e, "historical_fcf", [data |-> data[eng[e].rec], eng |-> eng[e]], value)

\* dcf._should_use_forward_fcf(dcf._calculate_historical_fcf())
CallShouldUseForwardFcf(e) ==
    \E eff \in {EnsureClassified(data[eng[e].rec], eng[e])} :
        Returned(e, "should_use_forward_fcf", eff,
                 ShouldUseForwardFcf(eff.data, eff.eng.sector_enum,
                                     CalculateHistoricalFcf(data[eng[e].rec])))

\* dcf._calculate_forward_fcf()
CallCalculateForwardFcf(e) ==
    \E eff \in {EnsureClassified(data[eng[e].rec], eng[e])} :
        Returned(e, "forward_fcf", eff,
                 CalculateForwardFcf(eff.data, eff.eng.sector_enum))

\* dcf.calculate_normalized_fcf()
CallCalculateNormalizedFcf(e) ==
    \E eff \in {EnsureValidated(data[eng[e].rec], eng[e])} :
        Returned(e, "normalized_fcf", eff,
                 CalculateNormalizedFcf(eff.data, eff.eng.sector_enum,
                                        TheVal(eff.eng.validation_results)))

\* dcf.calculate_wacc()
CallCalculateWacc(e) ==
    \E value \in {CalculateWacc(data[eng[e].rec], eng[e].sector_enum)} :
        Returned(e, "wacc", [data |-> data[eng[e].rec], eng |-> eng[e]], value)

\* dcf._estimate_maintenance_capex()
CallEstimateMaintenanceCapex(e) ==
    \E value \in {EstimateMaintenanceCapex(data[eng[e].rec], eng[e].sector_enum)} :
        Returned(e, "maintenance_capex", [data |-> data[eng[e].rec], eng |-> eng[e]], value)

NextMethods ==
    \/ CallEstimateMaintenanceCapex(1)
    \/ CallCalculateHistoricalFcf(1)
    \/ CallShouldUseForwardFcf(1)
    \/ CallCalculateForwardFcf(1)
    \/ CallCalculateNormalizedFcf(1)
    \/ CallCalculateWacc(1)
    \/ ValidateAndClassify(1)
    \/ \E y \in YearsArgs, g \in ScheduleArgs : CalculateValuation(1, y, g)

SpecMethods == InitMethods /\ [][NextMethods]_vars

(***************************************************************************)
(* SpecHorizon: calculate_valuation called with every horizon a caller can *)
(* pass, 0 included, on the records of SpecMethods                         *)
(***************************************************************************)
HorizonArgs == 0..MaxHorizon

NextHorizon ==
    \/ ValidateAndClassify(1)
    \/ \E y \in HorizonArgs, g \in ScheduleArgs : CalculateValuation(1, y, g)

SpecHorizon == InitMethods /\ [][NextHorizon]_vars

(***************************************************************************)
(* SpecAlias: the calls of Spec on engine 1 with the identity of the flags *)
(* lists tracked.  _should_use_forward_fcf builds a new list on every run; *)
(* validate_and_classify stores that list in validation_results['flags']   *)
(* and calculate_valuation passes the stored list itself, not a copy, to   *)
(* ValuationResult(flags=...).  A list a caller changes in place changes   *)
(* under every field that refers to it.                                    *)
(***************************************************************************)
\* dcf.validate_and_classify(): the dictionary stored holds a new list
ValidateAndClassifyRef(e) ==
    /\ nops < budget
    /\ \E eff \in {ValidateAndClassifyEffect(data[eng[e].rec], eng[e])} :
           /\ data' = [data EXCEPT ![eng[e].rec] = eff.data]
           /\ eng' = [eng EXCEPT ![e] = eff.eng]
    /\ ret' = [ret EXCEPT ![e].clean = FALSE, ![e].mutated = FALSE]
    /\ refs' = [refs EXCEPT !.next = @ + 1, !.cache[e] = refs.next]
    /\ last_op' = [kind |-> "validate", eng |-> e]
    /\ nops' = nops + 1
    /\ UNCHANGED <<rec0, budget, th, shared, ctor>>

\* the list validation_results['flags'] refers to when Step 1 is over
CacheRef(e) == IF IsNone(eng[e].validation_results) THEN refs.next ELSE refs.cache[e]

\* result = dcf.calculate_valuation(projection_years, custom_growth_rates):
\* result.flags is validation_results['flags']
CalculateValuationRef(e, projection_years, custom_growth_rates) ==
    /\ nops < budget
    /\ \E eff \in {CalculateValuationEffect(data[eng[e].rec], eng[e],
                                               projection_years, custom_growth_rates)} :
           /\ data' = [data EXCEPT ![eng[e].rec] = eff.data]
           /\ eng' = [eng EXCEPT ![e] = eff.eng]
           /\ ret' = [ret EXCEPT ![e] =
                        [ncalls |-> @.ncalls + 1,
                         args |-> Some(<<projection_years, custom_growth_rates>>),
                         result |-> Some(eff.result),
                         prev |-> @.result,
                         clean |-> TRUE,
                         mutated |-> IF IsNone(eng[e].validation_results)
                                     THEN FALSE ELSE @.mutated,
                         repeat |-> @.ncalls >= 1 /\ @.clean
                                    /\ @.args = Some(<<projection_years, custom_growth_rates>>),
                         after_mutation |-> @.ncalls >= 1 /\ @.mutated]]
    /\ refs' = [next |-> IF IsNone(eng[e].validation_results)
                         THEN refs.next + 1 ELSE refs.next,
                cache |-> [refs.cache EXCEPT ![e] = CacheRef(e)],
                result |-> [refs.result EXCEPT ![e] = CacheRef(e)],
                prev |-> [refs.prev EXCEPT ![e] = refs.result[e]]]
    /\ last_op' = [kind |-> "calc", eng |-> e]
    /\ nops' = nops + 1
    /\ UNCHANGED <<rec0, budget, th, shared, ctor>>

\* the flag a caller appends to a result's list
CallerFlag == "caller_note"

\* a result (or none) after list `id` got a new element, its flags
\* referring to list `ref`
Appended(res, ref, id) ==
    IF ref = id
    THEN {[r EXCEPT !.flags = Append(@, CallerFlag)] : r \in res}
    ELSE res

\* result.flags.append(...) on the last result ("result") or on the one
\* before ("prev") of engine e: the list changes, and with it every field
\* that refers to it
AppendFlag(e, holder) ==
    /\ nops < budget
    /\ \E id \in {IF holder = "result" THEN refs.result[e] ELSE refs.prev[e]} :
           /\ id # 0
           /\ IF holder = "result" THEN ret[e].result # None ELSE ret[e].prev # None
           /\ eng' = [x \in EngIds |->
                        [eng[x] EXCEPT !.validation_results =
                            Appended(@, refs.cache[x], id)]]
           /\ ret' = [x \in EngIds |->
                        [ret[x] EXCEPT !.result = Appended(@, refs.result[x], id),
                                       !.prev = Appended(@, refs.prev[x], id)]]
    /\ last_op' = [kind |-> "append_flag", eng |-> e, holder |-> holder]
    /\ nops' = nops + 1
    /\ UNCHANGED <<data, rec0, budget, th, shared, ctor, refs>>

NextAlias ==
    \/ ValidateAndClassifyRef(1)
    \/ \E y \in YearsArgs, g \in RatesArgs : CalculateValuationRef(1, y, g)
    \/ \E holder \in {"result", "prev"} : AppendFlag(1, holder)

SpecAlias == Init /\ [][NextAlias]_vars

(***************************************************************************)
(* Properties                                                              *)
(***************************************************************************)
IsPrefix(s, t) == Len(s) <= Len(t) /\ SubSeq(t, 1, Len(s)) = s

\* C1: a constructor call whose five series do not all have the same
\* length, or have the same length below 3, raises ValueError and returns
\* no object.
C1_ConstructionRejects ==
    ctor.called =>
        LET l == ctor.lens
            mismatch == Cardinality({l.revenues, l.ebitda, l.depreciation,
                                     l.interest_expense, l.capex}) > 1
            short == ~mismatch /\ l.revenues < 3
        IN  (mismatch \/ short) =>
                /\ ctor.outcome \in {"ValueError_length_mismatch", "ValueError_need_3_years"}
                /\ ctor.obj = None

C1_Witness ==
    /\ ctor.called
    /\ ctor.lens = [revenues |-> 2, ebitda |-> 2, depreciation |-> 2,
                    interest_expense |-> 2, capex |-> 2]
    /\ ctor.outcome = "ValueError_need_3_years"
    /\ ctor.obj = None

\* C2: in every reachable state of a record net_debt = total_debt - cash,
\* also after in-place changes of total_debt or cash, so that a valuation's
\* equity value is its enterprise value minus the record's current
\* total_debt - cash.
C2_NetDebtTracksDebtAndCash ==
    /\ \A r \in RecIds : data[r].net_debt = data[r].total_debt - data[r].cash
    /\ \A e \in EngIds :
          (ret[e].ncalls >= 1 /\ ret[e].clean /\ TheVal(ret[e].result).finite = "finite") =>
              TheVal(ret[e].result).equity_value =
                  TheVal(ret[e].result).enterprise_value
                    - (data[eng[e].rec].total_debt - data[eng[e].rec].cash)

C4_StageOrder ==
    \A t \in Threads :
        th[t].pc \notin {"idle", "cv_check"} =>
            LET full == IF th[t].cached_at_entry
                        THEN <<"normalization", "wacc", "projection">>
                        ELSE <<"classification", "detection", "normalization",
                               "wacc", "projection">>
            IN  /\ IsPrefix(th[t].trace, full)
                /\ th[t].pc = "done" => th[t].trace = full
                /\ (\E i \in 1..Len(th[t].trace) : th[t].trace[i] = "wacc") =>
                       eng[th[t].eng].sector_enum # NoSector

C4_Witness ==
    \E t \in Threads :
        /\ th[t].pc = "done"
        /\ th[t].cached_at_entry
        /\ th[t].calls = 2
        /\ th[t].trace = <<"normalization", "wacc", "projection">>

\* C5 as stated: after a valuation and then an in-place mutation of the
\* record, the next calculate_valuation on that engine reports the sector,
\* forward_fcf_used and flags that classification and detection yield on
\* the record's current values.
C5_MutationInvalidatesCache ==
    [][\A e \in EngIds :
          (last_op'.kind = "calc" /\ last_op'.eng = e
             /\ ret[e].ncalls >= 1 /\ ret[e].mutated) =>
              \E fresh \in ValidateAndClassifyEffect(
                               data[eng[e].rec], FreshEngine(eng[e].rec)).eng.validation_results :
                  /\ TheVal(ret'[e].result).sector = fresh.sector
                  /\ TheVal(ret'[e].result).forward_fcf_used = fresh.use_forward_fcf
                  /\ TheVal(ret'[e].result).flags = fresh.flags]_vars

\* C5 amended: after a valuation and then an in-place mutation of the
\* record, the next calculate_valuation on that engine still reports the
\* sector, forward_fcf_used and flags of the engine's cached
\* validation_results, and leaves that cache as it was.
C5_CacheSurvivesMutation ==
    [][\A e \in EngIds :
          (last_op'.kind = "calc" /\ last_op'.eng = e
             /\ ret[e].ncalls >= 1 /\ ret[e].mutated) =>
              \E cached \in eng[e].validation_results :
                  /\ TheVal(ret'[e].result).sector = cached.sector
                  /\ TheVal(ret'[e].result).forward_fcf_used = cached.use_forward_fcf
                  /\ TheVal(ret'[e].result).flags = cached.flags
                  /\ eng'[e] = eng[e]]_vars

C5_Witness ==
    \E e \in EngIds :
        /\ last_op.kind = "calc" /\ last_op.eng = e
        /\ ret[e].after_mutation
        /\ \E fresh \in ValidateAndClassifyEffect(
                            data[eng[e].rec], FreshEngine(eng[e].rec)).eng.validation_results :
               TheVal(ret[e].result).flags # fresh.flags

SequentialResult(t) ==
    CalculateValuationEffect(rec0, FreshEngine(eng[th[t].eng].rec), th[t].projection_years,
                             th[t].custom_growth_rates).result

\* C7: two concurrent calls that each use their own record snapshot and
\* their own engine always return the results of the calls run alone.
C7_OwnSnapshotsSequential ==
    ~shared =>
        \A t \in Threads :
            th[t].pc = "done" => TheVal(th[t].result) = SequentialResult(t)

\* C7, the unsafe interleaving: both calls on a shared engine saw no cached
\* result and ran classification, and a returned result differs from the
\* sequential one in sector_override or original_sector.
C7_Witness ==
    /\ shared
    /\ \A u \in Threads : th[u].calls = 1 /\ ~th[u].cached_at_entry
                          /\ th[u].pc \notin {"idle", "cv_check"}
    /\ \E t \in Threads :
          /\ th[t].pc = "done"
          /\ \/ TheVal(th[t].result).sector_override # SequentialResult(t).sector_override
             \/ TheVal(th[t].result).original_sector # SequentialResult(t).original_sector

\* the ratio conditions of the tower and REIT fingerprints, on the record's
\* fields
TowerRatios(d) ==
    /\ Last(d.revenues) > 0
    /\ 2 * Last(d.ebitda) > Last(d.revenues)
    /\ d.total_assets > 3 * Last(d.revenues)
    /\ d.total_assets < 15 * Last(d.revenues)
    /\ VolLT(RevenueVolatility(d.revenues), 3, 20)
    /\ Last(d.ebitda) > 0
    /\ d.total_debt > 4 * Last(d.ebitda)

ReitRatios(d) ==
    /\ Last(d.revenues) > 0
    /\ 5 * Last(d.ebitda) > 3 * Last(d.revenues)
    /\ d.total_assets > 8 * Last(d.revenues)

C9_ReitTestRecordIsReits ==
    [][(last_op'.kind = "validate"
          /\ data[eng[last_op'.eng].rec] = PostInit(ReitTestArgs)) =>
        eng'[last_op'.eng].sector_enum = "REITS"]_vars

\* the sector a label names: the keywords in the priority the dictionary
\* order gives them
SectorNamedBy(label) ==
    LET l == Lower(label)
    IN  IF Contains(l, <<"t","o","w","e","r">>) THEN "TOWERS"
        ELSE IF Contains(l, <<"r","e","i","t">>) THEN "REITS"
        ELSE IF Contains(l, <<"u","t","i","l","i","t","i","e","s">>)
                \/ Contains(l, <<"u","t","i","l","i","t","y">>) THEN "UTILITIES"
        ELSE IF Contains(l, <<"p","i","p","e","l","i","n","e">>) THEN "PIPELINES"
        ELSE IF Contains(l, <<"t","o","l","l">>) THEN "TOLL_ROADS"
        ELSE IF Contains(l, <<"a","i","r","p","o","r","t">>) THEN "AIRPORTS"
        ELSE IF Contains(l, <<"d","a","t","a"," ","c","e","n","t","e","r">>)
                \/ Contains(l, <<"d","a","t","a","c","e","n","t","e","r">>) THEN "DATA_CENTERS"
        ELSE IF Contains(l, <<"t","e","l","e","c","o","m">>) THEN "TELECOM_INFRA"
        ELSE "OTHER"

\* C10: when neither fingerprint matches, the sector is the one of the
\* first keyword, in dictionary order, that occurs in the lower-cased
\* label ('telecom' and 'tower' together give TOWERS, 'utility' and
\* 'pipeline' together UTILITIES), and OTHER when no keyword occurs.
C10_LabelFallback ==
    \A e \in EngIds :
        (eng[e].sector_enum # NoSector /\ ~TowerRatios(rec0) /\ ~ReitRatios(rec0)) =>
            /\ eng[e].sector_enum = SectorNamedBy(rec0.sector)
            /\ rec0.sector = L_Telecom_Tower => eng[e].sector_enum = "TOWERS"
            /\ rec0.sector = L_utility_pipeline => eng[e].sector_enum = "UTILITIES"
            /\ rec0.sector \in {L_infrastructure, L_other} => eng[e].sector_enum = "OTHER"

C10_Witness ==
    \E e \in EngIds :
        /\ eng[e].sector_enum = "TOWERS"
        /\ ~TowerRatios(rec0) /\ ~ReitRatios(rec0)
        /\ rec0.sector = L_Telecom_Tower

\* C11: after validate_and_classify on a record as constructed, the
\* override flag is true exactly when the value of the classified sector
\* ('other' for OTHER) differs from the label the caller supplied, and
\* original_sector is that label.
C11_OverrideIffLabelDiffers ==
    \A e \in EngIds :
        (last_op.kind = "validate" /\ last_op.eng = e /\ nops = 1) =>
            \A vr \in eng[e].validation_results :
                /\ vr.sector_override = (SectorValue(eng[e].sector_enum) # rec0.sector)
                /\ vr.original_sector = rec0.sector

\* C12: detection returns use_forward = (number of flags >= 2); a signal
\* is reported whatever the number of flags raised before it; the
\* normalization method is the forward one exactly when the cached flags
\* are 2 or more, the historical average otherwise; and in every
\* ValuationResult forward_fcf_used is true exactly when flags has 2 or
\* more entries.
C12_ForwardIffTwoFlags ==
    /\ last_op.kind = "should_use_forward_fcf" =>
          LET v == last_op.value
              d == data[eng[last_op.eng].rec]
              fcf == CalculateHistoricalFcf(d)
              has(f) == \E i \in 1..Len(v.flags) : v.flags[i] = f
          IN  /\ v.use_forward = (Len(v.flags) >= 2)
              /\ has("infrastructure_sector") =
                    (eng[last_op.eng].sector_enum \notin {"OTHER", NoSector})
              /\ has("ebitda_fcf_divergence") = (Last(d.ebitda) > 0 /\ Last(fcf) < 0)
              /\ has("contracted_revenues") =
                    (\E c \in d.avg_contract_duration : c > 5)
    /\ last_op.kind = "normalized_fcf" =>
          \A vr \in eng[last_op.eng].validation_results :
              /\ (last_op.value.method = "forward_ebitda_based") = (Len(vr.flags) >= 2)
              /\ (last_op.value.method = "historical_average") = (Len(vr.flags) < 2)
    /\ \A e \in EngIds : \A r \in ret[e].result :
          r.outcome = "ok" => r.forward_fcf_used = (Len(r.flags) >= 2)

C12_Witness ==
    /\ last_op.kind = "should_use_forward_fcf"
    /\ Len(last_op.value.flags) >= 3
    /\ last_op.value.use_forward
    /\ \E i \in 3..Len(last_op.value.flags) : last_op.value.flags[i] = "ebitda_fcf_divergence"

\* C13: for every record with at least 5 periods in which at least 3 of
\* the last 5 years have capex > EBITDA, whatever the sign of EBITDA,
\* detection sets the high_growth_capex flag.
C13_HighGrowthCapexFlag ==
    last_op.kind = "should_use_forward_fcf" =>
        LET d == data[eng[last_op.eng].rec]
            n == Len(d.capex)
        IN  (n >= 5 /\ Cardinality({i \in (n - 4)..n : d.capex[i] > d.ebitda[i]}) >= 3) =>
                \E i \in 1..Len(last_op.value.flags) :
                    last_op.value.flags[i] = "high_growth_capex"

\* C14: the sustained_negative_fcf flag is set exactly when, for a record
\* with 5 or more periods, at least 3 of its most recent 5 periods have
\* negative historical FCF, or, for a record with 3 or 4 periods, at least
\* 2 of its most recent 3 have, whether historical FCF comes from the
\* operating cash flow series or from the EBITDA approximation.
C14_SustainedNegativeFcfFlag ==
    last_op.kind = "should_use_forward_fcf" =>
        LET d == data[eng[last_op.eng].rec]
            n == Len(d.revenues)
            fcf == CalculateHistoricalFcf(d)
            negative(w) == Cardinality({i \in (n - w + 1)..n :
                                           i >= 1 /\ i <= Len(fcf) /\ fcf[i] < 0})
            expected == IF n >= 5 THEN negative(5) >= 3 ELSE negative(3) >= 2
        IN  (\E i \in 1..Len(last_op.value.flags) :
                last_op.value.flags[i] = "sustained_negative_fcf") = expected

\* C15: for every record constructed with an operating cash flow series,
\* _calculate_historical_fcf returns one entry for every period of the
\* record, and entry i is operating_cash_flow[i] - capex[i].
C15_HistoricalFcfFromOcf ==
    last_op.kind = "historical_fcf" =>
        \A ocf \in data[eng[last_op.eng].rec].operating_cash_flow :
            LET d == data[eng[last_op.eng].rec]
            IN  /\ Len(last_op.value) = Len(d.revenues)
                /\ \A i \in 1..Len(last_op.value) :
                      /\ i <= Len(ocf)
                      /\ last_op.value[i] = ocf[i] - d.capex[i]

\* C16: _calculate_forward_fcf, called on an engine classified or not, on
\* a record with maintenance_capex_guidance = M whose classified sector is
\* TOWERS, TELECOM_INFRA, UTILITIES or PIPELINES returns
\* EBITDA_baseline - M - max(EBITDA_baseline - latest D&A, 0) * tax rate.
C16_ForwardFcfWithGuidance ==
    last_op.kind = "forward_fcf" =>
        LET d == data[eng[last_op.eng].rec]
            base == GetEbitdaBaseline(d).v
            ebit == base - Last(d.depreciation)
        IN  \A M \in d.maintenance_capex_guidance :
                eng[last_op.eng].sector_enum
                    \in {"TOWERS", "TELECOM_INFRA", "UTILITIES", "PIPELINES"} =>
                    last_op.value.v =
                        base - M - (IF ebit > 0 THEN (ebit * d.effective_tax_rate) \div 1000 ELSE 0)

C16_Witness ==
    /\ last_op.kind = "forward_fcf"
    /\ nops = 1
    /\ eng[last_op.eng].sector_enum = "TELECOM_INFRA"
    /\ data[eng[last_op.eng].rec].maintenance_capex_guidance = Some(70)
    /\ GetEbitdaBaseline(data[eng[last_op.eng].rec]).v > Last(data[eng[last_op.eng].rec].depreciation)
    /\ last_op.value.v > 0

\* the cost of equity of calculate_wacc: risk_free_rate + asset_beta *
\* market_risk_premium, in permille
CostOfEquity(d, sector_enum) ==
    d.risk_free_rate + (ResolveAssetBeta(d, sector_enum) * d.market_risk_premium) \div 100

\* C17 as stated: for every record with total_debt = 0, whatever its
\* market_cap, calculate_wacc returns the cost of equity.
C17_ZeroDebtWaccIsCostOfEquity ==
    last_op.kind = "wacc" =>
        LET d == data[eng[last_op.eng].rec]
        IN  d.total_debt = 0 =>
                last_op.value = CostOfEquity(d, eng[last_op.eng].sector_enum)

\* C17 amended: for a record with total_debt = 0, calculate_wacc returns
\* the cost of equity when market_cap > 0, and the mean of the cost of
\* equity and risk_free_rate + 0.02 when market_cap = 0.
C17_ZeroDebtWacc ==
    last_op.kind = "wacc" =>
        LET d == data[eng[last_op.eng].rec]
            coe == CostOfEquity(d, eng[last_op.eng].sector_enum)
        IN  d.total_debt = 0 =>
                /\ d.market_cap > 0 => last_op.value = coe
                /\ d.market_cap = 0 =>
                      last_op.value = (coe + d.risk_free_rate + 20) \div 2

C17_Witness ==
    /\ last_op.kind = "wacc"
    /\ data[eng[last_op.eng].rec].total_debt = 0
    /\ data[eng[last_op.eng].rec].market_cap = 0
    /\ last_op.value # CostOfEquity(data[eng[last_op.eng].rec], eng[last_op.eng].sector_enum)

\* C18: with a growth schedule, year i of the projection grows the FCF of
\* the year before (the normalized FCF for year 1) by schedule[i] when the
\* schedule has an entry i and by the terminal growth rate otherwise;
\* entries past the horizon are ignored and the projection has exactly
\* projection_years entries.
C18_GrowthSchedule ==
    \A e \in EngIds : \A r \in ret[e].result : \A args \in ret[e].args :
        (r.outcome = "ok" /\ ~IsNone(args[2])) =>
            LET rates == TheVal(args[2])
                d == data[eng[e].rec]
                rate(i) == IF i <= Len(rates) THEN rates[i] ELSE d.terminal_growth_rate
                prev(i) == IF i = 1 THEN r.normalized_fcf ELSE r.projected_fcf[i - 1]
            IN  /\ Len(r.projected_fcf) = args[1]
                /\ \A i \in 1..args[1] :
                      r.projected_fcf[i] = (prev(i) * (1000 + rate(i))) \div 1000

C18_Witness ==
    \E e \in EngIds : \E r \in ret[e].result :
        /\ ret[e].args = Some(<<2, Some(<<80>>)>>)
        /\ r.outcome = "ok"
        /\ r.normalized_fcf > 100
        /\ r.projected_fcf[1] = (r.normalized_fcf * 1080) \div 1000
        /\ r.projected_fcf[2] =
              (r.projected_fcf[1] * (1000 + data[eng[e].rec].terminal_growth_rate)) \div 1000
        /\ data[eng[e].rec].terminal_growth_rate # data[eng[e].rec].revenue_growth_rate

\* the normalized FCF of record d on engine e is a Python number, not a
\* numpy scalar: the forward method on the latest EBITDA with capex from
\* guidance or from the sector benchmark
PythonNormalizedFcf(d, e) ==
    /\ \E vr \in e.validation_results : vr.use_forward_fcf
    /\ ~(Len(d.ebitda) >= 3 /\ CvAbove(LastN(d.ebitda, 3), 3, 20))
    /\ ~IsNone(d.maintenance_capex_guidance) \/ e.sector_enum \notin {"OTHER", NoSector}

C20_ValueBridge ==
    last_op.kind = "calc" =>
        \A r \in ret[last_op.eng].result :
            LET d == data[eng[last_op.eng].rec]
                spread == CalculateWacc(d, eng[last_op.eng].sector_enum)
                            - d.terminal_growth_rate
            IN  /\ r.outcome = "ok" /\ r.finite = "finite" =>
                      /\ r.enterprise_value = r.pv_explicit_period + r.pv_terminal_value
                      /\ r.equity_value = r.enterprise_value - d.net_debt
                      /\ d.shares_outstanding > 0 =>
                            r.intrinsic_value_per_share
                               = r.equity_value \div d.shares_outstanding
                /\ r.outcome = "ok" /\ d.shares_outstanding <= 0 =>
                      r.intrinsic_value_per_share = 0
                /\ d.shares_outstanding = 0 /\ spread # 0 => r.outcome = "ok"

C20_Witness ==
    /\ last_op.kind = "calc"
    /\ data[eng[last_op.eng].rec].shares_outstanding = 0
    /\ data[eng[last_op.eng].rec].net_debt # 0
    /\ \E r \in ret[last_op.eng].result :
          /\ r.outcome = "ok" /\ r.finite = "finite"
          /\ r.equity_value # 0
          /\ r.intrinsic_value_per_share = 0

\* C21: on a record the constructor accepted, calculate_valuation returns a
\* ValuationResult for every horizon (0 included) and every growth
\* schedule; it never raises.
C21_ValuationNeverRaises ==
    last_op.kind = "calc" =>
        \A r \in ret[last_op.eng].result : r.outcome = "ok"

\* C22: every result is an independent snapshot.  A later call on the
\* engine leaves the results already returned as they were, a change made
\* through one result leaves the other result and the engine's cached
\* detection state as they were.
C22_ResultsAreIndependentSnapshots ==
    [][\A e \in EngIds :
          /\ last_op'.kind = "validate" =>
                ret'[e].result = ret[e].result /\ ret'[e].prev = ret[e].prev
          /\ last_op'.kind = "calc" /\ last_op'.eng = e =>
                ret'[e].prev = ret[e].result
          /\ last_op'.kind = "append_flag" =>
                /\ eng'[e].validation_results = eng[e].validation_results
                /\ last_op'.holder = "result" => ret'[e].prev = ret[e].prev
                /\ last_op'.holder = "prev" => ret'[e].result = ret[e].result]_vars

\* C23: every ratio of the classifier and the detector is 0 when its
\* denominator is 0: EBITDA margin and asset intensity (latest revenue 0),
\* leverage (latest EBITDA 0), capex intensity (average revenue 0), revenue
\* volatility (a prior-period revenue 0, so it passes the `< 0.15` test of
\* the tower fingerprint and a record with the other tower ratios is
\* classified TOWERS), capex / EBITDA of a period with EBITDA 0 (so the
\* period is not a high-capex year), and the coefficients of variation of
\* capex and EBITDA (mean 0).
C23_ZeroDenominatorRatiosAreZero ==
    \A e \in EngIds :
        eng[e].sector_enum # NoSector =>
            LET d == rec0
                c == AnalyzeBusinessModel(rec0)
                zero_prior == \E i \in 1..(Len(d.revenues) - 1) : d.revenues[i] = 0
            IN  /\ Last(d.revenues) = 0 =>
                      c.ebitda_margin.n = 0 /\ c.asset_intensity.n = 0
                /\ Last(d.ebitda) = 0 => c.leverage.n = 0
                /\ SumSeq(LastN(d.revenues, 3)) = 0 => c.capex_intensity.n = 0
                /\ zero_prior => VolLT(c.revenue_volatility, 15, 100)
                /\ (/\ zero_prior
                    /\ Last(d.revenues) > 0 /\ Last(d.ebitda) > 0
                    /\ 2 * Last(d.ebitda) > Last(d.revenues)
                    /\ d.total_assets > 3 * Last(d.revenues)
                    /\ d.total_assets < 15 * Last(d.revenues)
                    /\ d.total_debt > 4 * Last(d.ebitda))
                      => eng[e].sector_enum = "TOWERS"
                /\ \A i \in 1..Len(d.ebitda) :
                      d.ebitda[i] = 0 => ~CapexRatioAboveOne(d.capex[i], d.ebitda[i])
                /\ SumSeq(LastN(d.capex, 5)) = 0 => ~CvAbove(LastN(d.capex, 5), 1, 2)
                /\ SumSeq(LastN(d.ebitda, 3)) = 0 => ~CvAbove(LastN(d.ebitda, 3), 3, 20)

\* C24: for a record with total_debt = 0 the pre-tax cost of debt is
\* risk_free_rate + 0.02 and WACC uses it after tax, times
\* (1 - effective_tax_rate); with market_cap = 0 as well the weights are
\* 0.5 and 0.5, so calculate_wacc returns
\* 0.5 * cost_of_equity + 0.5 * (risk_free_rate + 0.02) * (1 - effective_tax_rate).
C24_ZeroDebtCostOfDebtAfterTax ==
    last_op.kind = "wacc" =>
        LET d == data[eng[last_op.eng].rec]
            coe == CostOfEquity(d, eng[last_op.eng].sector_enum)
            after_tax == MulRate(d.risk_free_rate + 20, 1000 - d.effective_tax_rate)
        IN  d.total_debt = 0 /\ d.market_cap = 0 =>
                last_op.value = (coe + after_tax) \div 2

\* the weighted average cost of capital of record d for asset beta `beta`
\* (hundredths): cost of equity risk_free_rate + beta * market_risk_premium,
\* cost of debt and market-value weights as calculate_wacc takes them
WaccForBeta(d, beta) ==
    LET cost_of_equity == d.risk_free_rate + (beta * d.market_risk_premium) \div 100
        cost_of_debt ==
            IF d.total_debt > 0
            THEN MulRate((Last(d.interest_expense) * 1000) \div d.total_debt,
                         1000 - d.effective_tax_rate)
            ELSE d.risk_free_rate + 20
        total_value == d.market_cap + d.total_debt
    IN  IF total_value > 0
        THEN (d.market_cap * cost_of_equity + d.total_debt * cost_of_debt) \div total_value
        ELSE (cost_of_equity + cost_of_debt) \div 2

\* C25: the asset beta of the cost of equity is the caller's asset_beta
\* when the record has one (0 included); otherwise the benchmark of the
\* sector the engine has classified, for the eight infrastructure sectors
\* (towers 0.60, telecom infrastructure 0.65, REITs 0.55, utilities 0.40,
\* pipelines 0.50, toll roads 0.70, airports 0.75, data centres 0.65);
\* otherwise 0.60.  calculate_wacc returns the weighted cost of capital
\* for that beta.
C25_AssetBetaPriority ==
    last_op.kind = "wacc" =>
        LET d == data[eng[last_op.eng].rec]
            s == eng[last_op.eng].sector_enum
            beta == IF d.asset_beta # None THEN TheVal(d.asset_beta)
                    ELSE IF s = "TOWERS" THEN 60
                    ELSE IF s = "TELECOM_INFRA" THEN 65
                    ELSE IF s = "REITS" THEN 55
                    ELSE IF s = "UTILITIES" THEN 40
                    ELSE IF s = "PIPELINES" THEN 50
                    ELSE IF s = "TOLL_ROADS" THEN 70
                    ELSE IF s = "AIRPORTS" THEN 75
                    ELSE IF s = "DATA_CENTERS" THEN 65
                    ELSE 60
        IN  last_op.value = WaccForBeta(d, beta)

C25_Witness ==
    /\ last_op.kind = "wacc"
    /\ data[eng[last_op.eng].rec].asset_beta = None
    /\ eng[last_op.eng].sector_enum = "UTILITIES"
    /\ last_op.value # WaccForBeta(data[eng[last_op.eng].rec], 60)

\* C26 as stated: without a growth schedule the growth rate of year 1 is
\* the record's revenue_growth_rate, the growth rate of the final year is
\* terminal_growth_rate, and the years in between grow by
\* high * (1 - year / horizon) + terminal * (year / horizon).
C26_TaperStartsAtHighRate ==
    last_op.kind = "calc" =>
        \A r \in ret[last_op.eng].result, a \in ret[last_op.eng].args :
            r.outcome = "ok" /\ a[2] = None =>
                LET d == data[eng[last_op.eng].rec]
                    h == a[1]
                    prev(year) == IF year = 1 THEN r.normalized_fcf
                                  ELSE r.projected_fcf[year - 1]
                    grown(year, g) == (prev(year) * (1000 * h + g)) \div (1000 * h)
                IN  /\ Len(r.projected_fcf) = h
                    /\ r.projected_fcf[1] = grown(1, h * d.revenue_growth_rate)
                    /\ r.projected_fcf[h] = grown(h, h * d.terminal_growth_rate)
                    /\ \A year \in 2..(h - 1) :
                          r.projected_fcf[year] =
                             grown(year, d.revenue_growth_rate * (h - year)
                                           + d.terminal_growth_rate * year)

\* C26 amended: without a growth schedule every year 1..horizon grows by
\* high * (1 - year / horizon) + terminal * (year / horizon): the final
\* year by terminal_growth_rate, year 1 by
\* high * (1 - 1 / horizon) + terminal / horizon, which is below
\* revenue_growth_rate (and is the terminal rate for a horizon of 1).
C26_LinearTaper ==
    last_op.kind = "calc" =>
        \A r \in ret[last_op.eng].result, a \in ret[last_op.eng].args :
            r.outcome = "ok" /\ a[2] = None =>
                LET d == data[eng[last_op.eng].rec]
                    h == a[1]
                    prev(year) == IF year = 1 THEN r.normalized_fcf
                                  ELSE r.projected_fcf[year - 1]
                    grown(year, g) == (prev(year) * (1000 * h + g)) \div (1000 * h)
                IN  /\ Len(r.projected_fcf) = h
                    /\ \A year \in 1..h :
                          r.projected_fcf[year] =
                             grown(year, d.revenue_growth_rate * (h - year)
                                           + d.terminal_growth_rate * year)
                    /\ r.projected_fcf[h] = grown(h, h * d.terminal_growth_rate)

C26_Witness ==
    /\ last_op.kind = "calc"
    /\ \E r \in ret[last_op.eng].result, a \in ret[last_op.eng].args :
          /\ r.outcome = "ok" /\ a[2] = None /\ a[1] = 4
          /\ r.projected_fcf[1] # (r.normalized_fcf
                * (1000 + data[eng[last_op.eng].rec].revenue_growth_rate)) \div 1000
          /\ r.projected_fcf[2] # r.projected_fcf[1]

\* C27: maintenance capex is the caller's guidance whenever the record has
\* one, whatever the sector (a guidance of 0 included); otherwise the
\* benchmark ratio of the sector the engine has classified times the most
\* recent revenue, for the eight infrastructure sectors (towers 6%, telecom
\* infrastructure 7%, REITs 12%, utilities 45%, pipelines 25%, toll roads
\* 15%, airports 20%, data centres 10%); otherwise the 25th percentile of
\* the whole capex series.
C27_MaintenanceCapexPriority ==
    last_op.kind = "maintenance_capex" =>
        LET d == data[eng[last_op.eng].rec]
            s == eng[last_op.eng].sector_enum
            percent == IF s = "TOWERS" THEN 6
                       ELSE IF s = "TELECOM_INFRA" THEN 7
                       ELSE IF s = "REITS" THEN 12
                       ELSE IF s = "UTILITIES" THEN 45
                       ELSE IF s = "PIPELINES" THEN 25
                       ELSE IF s = "TOLL_ROADS" THEN 15
                       ELSE IF s = "AIRPORTS" THEN 20
                       ELSE IF s = "DATA_CENTERS" THEN 10
                       ELSE 0
        IN  last_op.value.v =
                IF d.maintenance_capex_guidance # None
                THEN TheVal(d.maintenance_capex_guidance)
                ELSE IF percent # 0 THEN (Last(d.revenues) * percent) \div 100
                ELSE Percentile25(d.capex)

C27_Witness ==
    /\ last_op.kind = "maintenance_capex"
    /\ data[eng[last_op.eng].rec].maintenance_capex_guidance = Some(0)
    /\ eng[last_op.eng].sector_enum = "UTILITIES"
    /\ last_op.value.v = 0

\* C28: classification diagnostics are stable under re-classification.  A
\* validate_and_classify on a record that an engine (the same or an earlier
\* one) has classified, the caller having changed nothing since, reports
\* the same sector, sector_override and original_sector as that engine's
\* classification did.
C28_ReclassificationStable ==
    [][last_op'.kind = "validate" =>
          \A e \in EngIds :
              (/\ eng[e].validation_results # None
               /\ ~ret[e].mutated
               /\ eng[e].rec = eng[last_op'.eng].rec)
              => \A a \in eng[e].validation_results,
                    b \in eng'[last_op'.eng].validation_results :
                     /\ a.sector = b.sector
                     /\ a.sector_override = b.sector_override
                     /\ a.original_sector = b.original_sector]_vars

\* C29: label round trip.  A record that matches no fingerprint and whose
\* label is the value of one of the eight infrastructure members of
\* InfrastructureSector (the string the classifier writes into a record) is
\* classified as that member.
C29_CanonicalLabelRoundTrip ==
    \A e \in EngIds, s \in BenchmarkSectors :
        (/\ eng[e].sector_enum # NoSector
         /\ rec0.sector = SectorValue(s)
         /\ ~TowerFingerprint(AnalyzeBusinessModel(rec0))
         /\ ~ReitFingerprint(AnalyzeBusinessModel(rec0)))
        => eng[e].sector_enum = s

\* C30: calculate_wacc does not depend on call order.  For a record without
\* a caller-supplied asset_beta, the rate calculate_wacc returns stays the
\* one a later calculate_wacc returns, whether or not the engine has
\* classified in between, and is the WACC a following calculate_valuation
\* reports in its result.
C30_WaccIndependentOfCallOrder ==
    [][(/\ last_op.kind = "wacc"
        /\ last_op'.eng = last_op.eng
        /\ data'[eng[last_op.eng].rec].asset_beta = None)
       => /\ last_op'.kind = "wacc" => last_op'.value = last_op.value
          /\ last_op'.kind = "calc" =>
                \A r \in ret'[last_op.eng].result :
                    r.outcome = "ok" => r.wacc = last_op.value
          /\ last_op'.kind = "validate" =>
                CalculateWacc(data'[eng[last_op.eng].rec],
                              eng'[last_op.eng].sector_enum) = last_op.value]_vars

=============================================================================
